---- MODULE Spec2Model ----
(***************************************************************************)
(* State-machine model of the TPX3 raw-data pipeline (kgofron/tcpRaw):     *)
(*   - PacketReorderBuffer (packet_reorder_buffer.cpp) driven by the frame *)
(*     parser's chunk headers and SPIDR packet-id words,                   *)
(*   - DecodeDispatcher (main.cpp): sharded worker queues, partial         *)
(*     statistics, flush/merge into HitProcessor, shutdown,                *)
(*   - process_raw_data / process_packet (main.cpp): frame parser and      *)
(*     byte accounting,                                                    *)
(*   - the TCP receive loop, connection callback and RawDataQueue, and the *)
(*     read loop of file mode.                                             *)
(* Each subsystem has its own specification over the shared variables.     *)
(***************************************************************************)
EXTENDS Integers, Sequences, FiniteSets, TLC

(***************************************************************************)
(* Bounds of the model (not program constants).                            *)
(***************************************************************************)
MaxPacketId == 3      \* SPIDR packet ids are drawn from 0..MaxPacketId
MaxWindow == 3        \* --reorder-window values are drawn from 0..MaxWindow
MaxChunks == 2        \* chunk headers seen by the reorder buffer
MaxPackets == 5       \* SPIDR packets submitted to the reorder buffer
MaxTasks == 2         \* decode tasks submitted to the dispatcher
MaxCalls == 1         \* flushAll / waitUntilIdle calls made by the client
MaxWords == 3         \* 8-byte words handed to the frame parser
MaxChunkWords == 5    \* words handed to the parser on long chunks
MaxConnections == 2   \* successful TCP connections
MaxRecvs == 3         \* recv() calls that return data
MaxReads == 3         \* reads of the input file that return data
MaxCapacity == 2      \* --recent-hit-count values are drawn from 0..MaxCapacity
MaxHits == 3          \* pixel words decoded into hits
MaxErrorWords == 4    \* words handed to the parser, some failing to decode
MaxTypeWords == 3     \* words handed to the parser, of every packet class

VARIABLES
    reorder_buffer,     \* the PacketReorderBuffer object (its fields)
    local_chunk_count,  \* StreamState::local_chunk_count (= current_chunk_id)
    released,           \* log of the ProcessCallback invocations
    submitted,          \* log of the processPacket calls
    processor,          \* the HitProcessor object (statistics aggregator)
    worker_queue,       \* WorkerData::queue of each worker
    worker_stats,       \* WorkerData::stats (PartialStats) of each worker
    pending_tasks_,     \* DecodeDispatcher::pending_tasks_
    stop_,              \* DecodeDispatcher::stop_
    worker_pc,          \* position of each worker thread in workerLoop
    worker_task,        \* the task a worker has popped and is decoding
    main,               \* the thread that calls the dispatcher: position,
                        \* call in progress, flushAll index and local copy
    history,            \* bookkeeping for the properties: the inline
                        \* reference aggregator and event counts
    state,              \* the StreamState of the frame parser
    parser,             \* process_raw_data: call in progress, the words
                        \* handed to it so far (count and log)
    config,             \* the command-line choices
    tcp,                \* the TCPServer object and the position of run()
    data_queue,         \* the RawDataQueue between network and processing
    consumer,           \* the processing thread of TCP mode and main's
                        \* byte and word counters
    file,               \* file mode of main: the read loop and its leftover
    fcall,              \* a decoder function called on its own: its
                        \* arguments and, once it has returned, its result
    access,             \* use of HitProcessor::mutex_: its owner, every
                        \* worker's position in process_packet, and the
                        \* getStatistics call in progress with its copy
    ring                \* a RingBuffer object, the write and the read call
                        \* in progress on it, and the bytes that went
                        \* through it

rvars == <<reorder_buffer, local_chunk_count, released, submitted>>

dvars == <<processor, worker_queue, worker_stats, pending_tasks_, stop_,
           worker_pc, worker_task, main, history>>

pvars == <<state, parser, config, fcall, ring>>

tvars == <<tcp, data_queue, consumer, file>>

svars == <<access>>

vars == <<rvars, dvars, pvars, tvars, svars>>

(***************************************************************************)
(* PacketReorderBuffer                                                     *)
(***************************************************************************)

\* the empty unordered_map
EmptyMap == [k \in {} |-> 0]

\* PacketReorderBuffer::Statistics, value-initialised
ReorderStatistics ==
    [packets_reordered |-> 0, packets_processed_immediately |-> 0,
     max_reorder_distance |-> 0, buffer_overflows |-> 0,
     packets_dropped_too_old |-> 0, total_packets |-> 0]

\* main() constructs the buffer with chunk_aware = true
chunk_aware_ == TRUE

\* PacketReorderBuffer::PacketReorderBuffer(max_buffer_size, chunk_aware)
NewReorderBuffer(max_buffer_size) ==
    [buffer_ |-> EmptyMap,
     max_buffer_size_ |-> max_buffer_size,
     next_expected_id_ |-> 0,
     oldest_allowed_id_ |-> 0,
     current_chunk_id_ |-> 0,
     first_packet_seen_ |-> FALSE,
     stats_ |-> ReorderStatistics]

\* A reorder buffer together with the calls it has made to its callback.
WithOut(rb, out) == [rb |-> rb, out |-> out]

\* callback(word, packet_id, chunk_id); path names the call site
Callback(rs, packet_id, chunk_id, path) ==
    [rs EXCEPT !.out = Append(@, [packet_id |-> packet_id,
                                  chunk_id |-> chunk_id, path |-> path])]

\* std::sort of the buffered ids (ascending)
RECURSIVE SortedIds(_)
SortedIds(S) ==
    IF S = {} THEN <<>>
    ELSE LET m == CHOOSE x \in S : \A y \in S : x <= y
         IN <<m>> \o SortedIds(S \ {m})

\* PacketReorderBuffer::updateOldestAllowed
UpdateOldestAllowed(rb) ==
    IF rb.next_expected_id_ >= rb.max_buffer_size_
    THEN [rb EXCEPT !.oldest_allowed_id_ = rb.next_expected_id_ - rb.max_buffer_size_]
    ELSE [rb EXCEPT !.oldest_allowed_id_ = 0]

\* buffer_.erase(it)
MapErase(m, k) == [x \in (DOMAIN m) \ {k} |-> m[x]]

\* buffer_[packet_id] = OutOfOrderPacket(word, packet_id, chunk_id)
MapPut(m, k, v) == [x \in (DOMAIN m) \cup {k} |-> IF x = k THEN v ELSE m[x]]

\* PacketReorderBuffer::releaseConsecutivePackets
RECURSIVE ReleaseConsecutivePackets(_)
ReleaseConsecutivePackets(rs) ==
    LET rb == rs.rb
        id == rb.next_expected_id_
    IN IF id \notin DOMAIN rb.buffer_ THEN rs
       ELSE LET called == Callback(rs, rb.buffer_[id].packet_id,
                                   rb.buffer_[id].chunk_id, "consecutive")
                erased == [rb EXCEPT !.buffer_ = MapErase(@, id),
                                     !.next_expected_id_ = @ + 1]
            IN ReleaseConsecutivePackets(
                   [called EXCEPT !.rb = UpdateOldestAllowed(erased)])

\* the callbacks of flush(), in sorted id order
RECURSIVE FlushCallbacks(_, _, _)
FlushCallbacks(rs, ids, i) ==
    IF i > Len(ids) THEN rs
    ELSE FlushCallbacks(
             Callback(rs, rs.rb.buffer_[ids[i]].packet_id,
                      rs.rb.buffer_[ids[i]].chunk_id, "flush"),
             ids, i + 1)

\* PacketReorderBuffer::flush
Flush(rs) ==
    IF DOMAIN rs.rb.buffer_ = {} THEN rs
    ELSE LET called == FlushCallbacks(rs, SortedIds(DOMAIN rs.rb.buffer_), 1)
         IN [called EXCEPT !.rb.buffer_ = EmptyMap,
                           !.rb.first_packet_seen_ = FALSE,
                           !.rb.next_expected_id_ = 0,
                           !.rb.oldest_allowed_id_ = 0]

\* PacketReorderBuffer::resetForNewChunk
ResetForNewChunk(rb, new_chunk_id) ==
    [rb EXCEPT !.buffer_ = EmptyMap,
               !.current_chunk_id_ = new_chunk_id,
               !.first_packet_seen_ = FALSE,
               !.next_expected_id_ = 0,
               !.oldest_allowed_id_ = 0]

\* FastPath with the equality test loosened to <= (a late id taken as in order)
FastPathLoose(rb, packet_id) ==
    ~rb.first_packet_seen_ \/ packet_id <= rb.next_expected_id_

\* processPacket: the fast-path test
FastPath(rb, packet_id) ==
    ~rb.first_packet_seen_ \/ packet_id = rb.next_expected_id_

\* processPacket: the too-old test
TooOld(rb, packet_id) ==
    rb.first_packet_seen_ /\ packet_id < rb.oldest_allowed_id_

\* BufferFull with the capacity test loosened to > (one entry too many fits)
BufferFullLoose(rb) == Cardinality(DOMAIN rb.buffer_) > rb.max_buffer_size_

\* processPacket: the capacity test, buffer_.size() >= max_buffer_size_
BufferFull(rb) == Cardinality(DOMAIN rb.buffer_) >= rb.max_buffer_size_

\* max_reorder_distance update
NoteDistance(rb, distance) ==
    IF distance > rb.stats_.max_reorder_distance
    THEN [rb EXCEPT !.stats_.max_reorder_distance = distance]
    ELSE rb

\* processPacket: the fast path (first packet, or exactly the expected id)
ProcessFast(rs, packet_id, chunk_id) ==
    LET rb == rs.rb
        advanced ==
            IF ~rb.first_packet_seen_
            THEN [rb EXCEPT !.first_packet_seen_ = TRUE,
                            !.next_expected_id_ = packet_id + 1,
                            !.oldest_allowed_id_ =
                                IF packet_id >= rb.max_buffer_size_
                                THEN packet_id - rb.max_buffer_size_ ELSE 0]
            ELSE UpdateOldestAllowed([rb EXCEPT !.next_expected_id_ = @ + 1])
        counted == [advanced EXCEPT !.stats_.packets_processed_immediately = @ + 1]
    IN Callback([rs EXCEPT !.rb = counted], packet_id, chunk_id, "fast")

\* processPacket: a packet ahead of next_expected_id_
ProcessAhead(rs, packet_id, chunk_id) ==
    LET rb == NoteDistance(rs.rb, packet_id - rs.rb.next_expected_id_)
    IN IF BufferFull(rb)
       THEN Callback([rs EXCEPT !.rb = [rb EXCEPT !.stats_.buffer_overflows = @ + 1]],
                     packet_id, chunk_id, "overflow")
       ELSE ReleaseConsecutivePackets(
                [rs EXCEPT !.rb =
                    [rb EXCEPT !.buffer_ = MapPut(@, packet_id,
                                   [packet_id |-> packet_id, chunk_id |-> chunk_id]),
                               !.stats_.packets_reordered = @ + 1]])

\* ProcessLate with the full-buffer branch calling the callback, as the ahead
\* branch does
ProcessLateReleasing(rs, packet_id, chunk_id) ==
    LET rb == NoteDistance(rs.rb, rs.rb.next_expected_id_ - packet_id - 1)
    IN IF BufferFull(rb)
       THEN Callback([rs EXCEPT !.rb = [rb EXCEPT !.stats_.buffer_overflows = @ + 1]],
                     packet_id, chunk_id, "overflow")
       ELSE ReleaseConsecutivePackets(
                [rs EXCEPT !.rb =
                    [rb EXCEPT !.buffer_ = MapPut(@, packet_id,
                                   [packet_id |-> packet_id, chunk_id |-> chunk_id]),
                               !.stats_.packets_reordered = @ + 1]])

\* processPacket: a late packet inside the window
ProcessLate(rs, packet_id, chunk_id) ==
    LET rb == NoteDistance(rs.rb, rs.rb.next_expected_id_ - packet_id - 1)
    IN IF BufferFull(rb)
       THEN [rs EXCEPT !.rb = [rb EXCEPT !.stats_.buffer_overflows = @ + 1]]
       ELSE ReleaseConsecutivePackets(
                [rs EXCEPT !.rb =
                    [rb EXCEPT !.buffer_ = MapPut(@, packet_id,
                                   [packet_id |-> packet_id, chunk_id |-> chunk_id]),
                               !.stats_.packets_reordered = @ + 1]])

\* PacketReorderBuffer::processPacket
ProcessPacket(rs0, packet_id, chunk_id) ==
    LET counted == [rs0 EXCEPT !.rb.stats_.total_packets = @ + 1]
        rs == IF chunk_aware_ /\ chunk_id # counted.rb.current_chunk_id_ /\ chunk_id > 0
              THEN LET flushed == Flush(counted)
                   IN [flushed EXCEPT !.rb = ResetForNewChunk(flushed.rb, chunk_id)]
              ELSE counted
        rb == rs.rb
    IN IF FastPath(rb, packet_id) THEN ProcessFast(rs, packet_id, chunk_id)
       ELSE IF TooOld(rb, packet_id)
            THEN [rs EXCEPT !.rb.stats_.packets_dropped_too_old = @ + 1]
       ELSE IF packet_id > rb.next_expected_id_
            THEN ProcessAhead(rs, packet_id, chunk_id)
       ELSE IF packet_id < rb.next_expected_id_ /\ packet_id >= rb.oldest_allowed_id_
            THEN ProcessLate(rs, packet_id, chunk_id)
       ELSE Callback(rs, packet_id, chunk_id, "unreachable")

(***************************************************************************)
(* 64-bit words and unsigned arithmetic                                    *)
(*                                                                         *)
(* A 64-bit word is the tuple <<h3, h2, h1, h0>> of its four 16-bit        *)
(* halfwords, h3 holding bits 63..48.  Values computed from a word         *)
(* (timestamps, counters) are unsigned integers that wrap at UINT64_MAX;   *)
(* the model keeps the wrap-around but scales the width down to 31 bits.   *)
(***************************************************************************)

\* std::numeric_limits<uint64_t>::max(), scaled to the model's width
UINT64_MAX == 2147483647

Min(a, b) == IF a < b THEN a ELSE b
Max(a, b) == IF a > b THEN a ELSE b

\* unsigned a + b and a - b with wrap-around
Add64(a, b) == IF a > UINT64_MAX - b THEN a - (UINT64_MAX - b) - 1 ELSE a + b
Sub64(a, b) == IF a >= b THEN a - b ELSE UINT64_MAX - (b - a) + 1

\* bit i (0 = least significant) of a word
Bit(data, i) == (data[4 - (i \div 16)] \div (2 ^ (i % 16))) % 2

\* get_bits: (data >> low) & ((1 << (high - low + 1)) - 1)
RECURSIVE get_bits(_, _, _)
get_bits(data, high, low) ==
    IF high < low THEN 0
    ELSE (IF Bit(data, high) = 1 THEN 2 ^ (high - low) ELSE 0)
         + get_bits(data, high - 1, low)

\* PacketType
PIXEL_COUNT_FB == 10
PIXEL_STANDARD == 11
GLOBAL_TIME_LOW == 68
GLOBAL_TIME_HIGH == 69
EXTRA_TIMESTAMP == 81
EXTRA_TIMESTAMP_MPX3 == 33
TDC_DATA == 6
SPIDR_PACKET_ID == 80
SPIDR_CONTROL == 5
TPX3_CONTROL == 113

\* SpidrControlCmd
SPIDR_SHUTTER_OPEN == 15
SPIDR_SHUTTER_CLOSE == 10
SPIDR_HEARTBEAT == 12

\* Tpx3ControlCmd
TPX3_END_SEQUENTIAL == 160
TPX3_END_DATA_DRIVEN == 176

\* TDCEventType
TDC1_RISE == 15
TDC1_FALL == 10
TDC2_RISE == 14
TDC2_FALL == 11

\* (word >> 56) & 0xFF and (word >> 60) & 0xF
FullType(word) == get_bits(word, 63, 56)
PacketType(word) == get_bits(word, 63, 60)

\* ChunkMetadata
ChunkMetadata(gen, min_ts, max_ts, has_extra) ==
    [packet_gen_time_ns |-> gen, min_timestamp_ns |-> min_ts,
     max_timestamp_ns |-> max_ts, has_extra_packets |-> has_extra]

NoChunkMetadata == ChunkMetadata(0, 0, 0, FALSE)

\* pixaddr_to_xy without the left/right column of the pixel index
pixaddr_to_xy_left(pixaddr) ==
    LET dcol == (pixaddr \div 512) % 128
        spix == (pixaddr \div 8) % 64
        pix == pixaddr % 8
    IN [x |-> dcol * 2, y |-> spix * 4 + (pix % 4)]

\* pixaddr_to_xy
pixaddr_to_xy(pixaddr) ==
    LET dcol == (pixaddr \div 512) % 128
        spix == (pixaddr \div 8) % 64
        pix == pixaddr % 8
    IN [x |-> dcol * 2 + (IF pix >= 4 THEN 1 ELSE 0),
        y |-> spix * 4 + (pix % 4)]

\* decode_pixel_data_count_fb
decode_pixel_data_count_fb(data, chip_index) ==
    LET xy == pixaddr_to_xy(get_bits(data, 59, 44))
        integrated_tot == get_bits(data, 43, 30)
        event_count == get_bits(data, 29, 20)
        spidr_time == get_bits(data, 15, 0)
    IN [x |-> xy.x, y |-> xy.y,
        toa_ns |-> (spidr_time * 16384 + event_count) * 16,
        tot_ns |-> (integrated_tot * 25) % 65536,
        chip_index |-> chip_index, is_count_fb |-> TRUE]

\* decode_pixel_data_standard
decode_pixel_data_standard(data, chip_index) ==
    LET xy == pixaddr_to_xy(get_bits(data, 59, 44))
        toa == get_bits(data, 43, 30)
        tot == get_bits(data, 29, 20)
        ftoa == get_bits(data, 19, 16)
        spidr_time == get_bits(data, 15, 0)
    IN [x |-> xy.x, y |-> xy.y,
        toa_ns |-> Sub64((spidr_time * 16384 + toa) * 16, ftoa),
        tot_ns |-> (tot * 25) % 65536,
        chip_index |-> chip_index, is_count_fb |-> FALSE]

\* a decoder's result: the value, or the exception it throws
Decoded(v) == [ok |-> TRUE, value |-> v]
Thrown(what) == [ok |-> FALSE, what |-> what]

\* decode_pixel_data
decode_pixel_data(data, chip_index) ==
    IF PacketType(data) = 10
    THEN Decoded(decode_pixel_data_count_fb(data, chip_index))
    ELSE IF PacketType(data) = 11
    THEN Decoded(decode_pixel_data_standard(data, chip_index))
    ELSE Thrown("Invalid pixel packet type")

\* decode_tdc_data refusing a fine field of 0 as well
decode_tdc_data_strict(data) ==
    LET fract == get_bits(data, 8, 5)
    IN IF fract = 0 \/ fract > 12
       THEN Thrown("Invalid fractional TDC part")
       ELSE Decoded([type |-> get_bits(data, 59, 56),
                     trigger_count |-> get_bits(data, 55, 44),
                     timestamp_ns |-> get_bits(data, 43, 9) * 2
                                        + ((fract - 1) \div 6),
                     fine_timestamp |-> fract])

\* decode_tdc_data
decode_tdc_data(data) ==
    LET event_type == get_bits(data, 59, 56)
        trigger_count == get_bits(data, 55, 44)
        tdc_coarse == get_bits(data, 43, 9)
        raw_fract == get_bits(data, 8, 5)
        fract == IF raw_fract = 0 THEN 1 ELSE raw_fract
    IN IF raw_fract > 12
       THEN Thrown("Invalid fractional TDC part")
       ELSE Decoded([type |-> event_type,
                     trigger_count |-> trigger_count,
                     timestamp_ns |-> tdc_coarse * 2 + ((fract - 1) \div 6),
                     fine_timestamp |-> fract])

\* decode_spidr_control: TRUE iff the word is a valid SPIDR control packet
decode_spidr_control(data) ==
    /\ PacketType(data) = 5
    /\ get_bits(data, 59, 56) \in
         {SPIDR_SHUTTER_OPEN, SPIDR_SHUTTER_CLOSE, SPIDR_HEARTBEAT}

\* extend_timestamp returning the truncated timestamp as it is
NotExtended(timestamp, minimum_timestamp, n_bits) == timestamp

\* extend_timestamp adding the masked timestamp itself to the minimum
ExtendedFromZero(timestamp, minimum_timestamp, n_bits) ==
    Add64(minimum_timestamp, timestamp % (2 ^ n_bits))

\* extend_timestamp: minimum + ((timestamp - minimum) & ((1 << n_bits) - 1))
extend_timestamp(timestamp, minimum_timestamp, n_bits) ==
    Add64(minimum_timestamp,
          Sub64(timestamp, minimum_timestamp) % (2 ^ n_bits))

(***************************************************************************)
(* HitProcessor: the shared statistics aggregator.  Every method runs      *)
(* under HitProcessor::mutex_, so each is one atomic update of the record. *)
(* The rate fields (wall-clock derived doubles) are not modelled.          *)
(***************************************************************************)

\* indexes of the std::array<_, 4> per-chip arrays
ChipSlots == 0..3

\* PixelHit{}
DefaultHit ==
    [x |-> 0, y |-> 0, toa_ns |-> 0, tot_ns |-> 0, chip_index |-> 0,
     is_count_fb |-> FALSE]

\* HitProcessor::HitProcessor, resetStatistics and setRecentHitCapacity
NewHitProcessor(capacity) ==
    [recent_hit_capacity_ |-> capacity,
     recent_hits_buffer_ |-> [i \in 0..(capacity - 1) |-> DefaultHit],
     recent_hits_head_ |-> 0,
     recent_hits_size_ |-> 0,
     total_hits |-> 0,
     total_chunks |-> 0,
     total_tdc_events |-> 0,
     total_tdc1_events |-> 0,
     total_tdc2_events |-> 0,
     total_decode_errors |-> 0,
     total_fractional_errors |-> 0,
     total_unknown_packets |-> 0,
     packet_type_counts |-> EmptyMap,
     chip_hit_rate_valid |-> [c \in ChipSlots |-> FALSE],
     chip_tdc1_counts |-> [c \in ChipSlots |-> 0],
     chip_tdc1_present |-> [c \in ChipSlots |-> FALSE],
     packet_byte_totals |-> EmptyMap,
     total_bytes_accounted |-> 0,
     earliest_hit_time_ticks |-> UINT64_MAX,
     latest_hit_time_ticks |-> 0,
     hit_time_initialized |-> FALSE,
     earliest_tdc1_time_ticks |-> UINT64_MAX,
     latest_tdc1_time_ticks |-> 0,
     tdc1_time_initialized |-> FALSE,
     total_reordered_packets |-> 0,
     reorder_max_distance |-> 0,
     reorder_buffer_overflows |-> 0,
     reorder_packets_dropped_too_old |-> 0,
     started_mid_stream |-> FALSE,
     chip_hit_totals_ |-> [c \in ChipSlots |-> 0],
     chip_tdc1_min_ticks_ |-> [c \in ChipSlots |-> UINT64_MAX],
     chip_tdc1_max_ticks_ |-> [c \in ChipSlots |-> 0]]

\* m[k] += n on a std::map (operator[] value-initialises a missing key)
MapAdd(m, k, n) == MapPut(m, k, (IF k \in DOMAIN m THEN m[k] ELSE 0) + n)

\* the recent-hit ring: store at head, advance head, grow size up to capacity
PushRecentHit(p, hit) ==
    IF p.recent_hit_capacity_ > 0
    THEN [p EXCEPT
            !.recent_hits_buffer_ = [@ EXCEPT ![p.recent_hits_head_] = hit],
            !.recent_hits_head_ = (@ + 1) % p.recent_hit_capacity_,
            !.recent_hits_size_ =
                IF @ < p.recent_hit_capacity_ THEN @ + 1 ELSE @]
    ELSE p

\* HitProcessor::getRecentHits: the retained hits, oldest first
getRecentHits(p) ==
    IF p.recent_hit_capacity_ = 0 \/ p.recent_hits_size_ = 0
    THEN <<>>
    ELSE LET capacity == p.recent_hit_capacity_
             start_index ==
                 (p.recent_hits_head_ + capacity - p.recent_hits_size_)
                     % capacity
         IN [i \in 1..p.recent_hits_size_ |->
                p.recent_hits_buffer_[(start_index + i - 1) % capacity]]

\* HitProcessor::addHit
addHit(p, hit) ==
    LET Chip(q) ==
            IF hit.chip_index < 4
            THEN [q EXCEPT !.chip_hit_totals_[hit.chip_index] = @ + 1,
                           !.chip_hit_rate_valid[hit.chip_index] = TRUE]
            ELSE q
        Earliest(q) ==
            IF ~q.hit_time_initialized
               \/ hit.toa_ns < q.earliest_hit_time_ticks
            THEN [q EXCEPT !.earliest_hit_time_ticks = hit.toa_ns,
                           !.hit_time_initialized = TRUE]
            ELSE q
        Latest(q) ==
            IF hit.toa_ns > q.latest_hit_time_ticks
            THEN [q EXCEPT !.latest_hit_time_ticks = hit.toa_ns]
            ELSE q
    IN Latest(Earliest(Chip(
           [PushRecentHit(p, hit) EXCEPT !.total_hits = @ + 1])))

\* HitProcessor::addTdcEvent
addTdcEvent(p, tdc, chip_index) ==
    LET Earliest(q) ==
            IF ~q.tdc1_time_initialized
               \/ tdc.timestamp_ns < q.earliest_tdc1_time_ticks
            THEN [q EXCEPT !.earliest_tdc1_time_ticks = tdc.timestamp_ns,
                           !.tdc1_time_initialized = TRUE]
            ELSE q
        Latest(q) ==
            IF tdc.timestamp_ns > q.latest_tdc1_time_ticks
            THEN [q EXCEPT !.latest_tdc1_time_ticks = tdc.timestamp_ns]
            ELSE q
        Chip(q) ==
            IF chip_index < 4
            THEN [q EXCEPT
                    !.chip_tdc1_counts[chip_index] = @ + 1,
                    !.chip_tdc1_present[chip_index] = TRUE,
                    !.chip_tdc1_min_ticks_[chip_index] =
                        IF @ = UINT64_MAX \/ tdc.timestamp_ns < @
                        THEN tdc.timestamp_ns ELSE @,
                    !.chip_tdc1_max_ticks_[chip_index] =
                        IF tdc.timestamp_ns > @ THEN tdc.timestamp_ns ELSE @]
            ELSE q
        Tdc1(q) ==
            IF tdc.type \in {TDC1_RISE, TDC1_FALL}
            THEN Chip([Latest(Earliest(q)) EXCEPT
                          !.total_tdc1_events = @ + 1])
            ELSE q
        Tdc2(q) ==
            IF tdc.type \in {TDC2_RISE, TDC2_FALL}
            THEN [q EXCEPT !.total_tdc2_events = @ + 1]
            ELSE q
    IN Tdc2(Tdc1([p EXCEPT !.total_tdc_events = @ + 1]))

\* HitProcessor::addPacketBytes
addPacketBytes(p, category, bytes) ==
    [p EXCEPT !.packet_byte_totals = MapAdd(@, category, bytes),
              !.total_bytes_accounted = @ + bytes]

\* HitProcessor::incrementPacketType
incrementPacketType(p, packet_type) ==
    [p EXCEPT !.packet_type_counts = MapAdd(@, packet_type, 1)]

incrementChunkCount(p) == [p EXCEPT !.total_chunks = @ + 1]
incrementChunkCountBatch(p, count) == [p EXCEPT !.total_chunks = @ + count]
\* a decode error counted once for the throw and once for the word
CountsErrorTwice(p) == [p EXCEPT !.total_decode_errors = @ + 2]
incrementDecodeError(p) == [p EXCEPT !.total_decode_errors = @ + 1]
incrementFractionalError(p) == [p EXCEPT !.total_fractional_errors = @ + 1]
incrementUnknownPacket(p) == [p EXCEPT !.total_unknown_packets = @ + 1]
markMidStreamStart(p) == [p EXCEPT !.started_mid_stream = TRUE]

\* HitProcessor::updateReorderStats
updateReorderStats(p, st) ==
    [p EXCEPT !.total_reordered_packets = st.packets_reordered,
              !.reorder_max_distance = st.max_reorder_distance,
              !.reorder_buffer_overflows = st.buffer_overflows,
              !.reorder_packets_dropped_too_old = st.packets_dropped_too_old]

(***************************************************************************)
(* process_packet (main.cpp): decode one word and record it                *)
(***************************************************************************)

HexUpper == <<"0", "1", "2", "3", "4", "5", "6", "7",
              "8", "9", "A", "B", "C", "D", "E", "F">>

\* format_type_label(prefix, type): prefix (0xNN), upper-case hex, 2 digits
format_type_label(prefix, type) ==
    prefix \o " (0x" \o HexUpper[(type \div 16) + 1]
           \o HexUpper[(type % 16) + 1] \o ")"

\* the label of the default branch: hex without padding
UnknownLabel(packet_type) ==
    "Unknown packet type (0x" \o HexUpper[packet_type + 1] \o ")"

Account(p, enable_accounting, category) ==
    IF enable_accounting THEN addPacketBytes(p, category, 8) ELSE p

\* the pixel branch of process_packet
ProcessPixelWord(p, word, chip_index, chunk_meta, enable_accounting) ==
    LET Extended(hit) ==
            IF chunk_meta.has_extra_packets
            THEN [hit EXCEPT !.toa_ns =
                     extend_timestamp(@ % (2 ^ 30),
                                      chunk_meta.min_timestamp_ns, 30)]
            ELSE hit
        Record(q, d) ==
            IF d.ok THEN addHit(q, Extended(d.value))
            ELSE incrementDecodeError(q)
    IN Record(Account(p, enable_accounting,
                      IF PacketType(word) = PIXEL_COUNT_FB
                      THEN "Pixel count_fb (0x0a)"
                      ELSE "Pixel standard (0x0b)"),
              decode_pixel_data(word, chip_index))

\* the TDC branch of process_packet
ProcessTdcWord(p, word, chip_index, enable_accounting) ==
    LET Record(q, d) ==
            IF d.ok
            THEN addTdcEvent(q, d.value, chip_index)
            ELSE incrementFractionalError(incrementDecodeError(q))
    IN Record(Account(p, enable_accounting, "TDC data (0x06)"),
              decode_tdc_data(word))

\* process_packet going by the 4-bit type alone
ClassifiedByNibble(p, word, chip_index, chunk_meta, enable_accounting) ==
    LET packet_type == PacketType(word)
        counted == IF enable_accounting
                   THEN incrementPacketType(p, packet_type) ELSE p
    IN CASE packet_type \in {PIXEL_COUNT_FB, PIXEL_STANDARD} ->
              ProcessPixelWord(counted, word, chip_index, chunk_meta,
                               enable_accounting)
         [] packet_type = TDC_DATA ->
              ProcessTdcWord(counted, word, chip_index, enable_accounting)
         [] packet_type = SPIDR_CONTROL ->
              Account(counted, enable_accounting, "SPIDR control (0x05)")
         [] OTHER ->
              IF enable_accounting
              THEN incrementUnknownPacket(
                       addPacketBytes(counted, UnknownLabel(packet_type), 8))
              ELSE counted

\* process_packet
process_packet(p, word, chip_index, chunk_meta, enable_accounting) ==
    LET full_type == FullType(word)
        packet_type == PacketType(word)
        counted == IF enable_accounting
                   THEN incrementPacketType(p, packet_type) ELSE p
    IN CASE full_type = SPIDR_PACKET_ID ->
              Account(p, enable_accounting, "SPIDR packet ID (0x50)")
         [] full_type = TPX3_CONTROL ->
              Account(p, enable_accounting, "TPX3 control (0x71)")
         [] full_type \in {EXTRA_TIMESTAMP, EXTRA_TIMESTAMP_MPX3} ->
              Account(p, enable_accounting,
                      format_type_label("Extra timestamp", full_type))
         [] full_type \in {GLOBAL_TIME_LOW, GLOBAL_TIME_HIGH} ->
              Account(p, enable_accounting,
                      format_type_label("Global time", full_type))
         [] OTHER ->
              CASE packet_type \in {PIXEL_COUNT_FB, PIXEL_STANDARD} ->
                     ProcessPixelWord(counted, word, chip_index, chunk_meta,
                                      enable_accounting)
                [] packet_type = TDC_DATA ->
                     ProcessTdcWord(counted, word, chip_index,
                                    enable_accounting)
                [] packet_type = SPIDR_CONTROL ->
                     LET p1 == Account(counted, enable_accounting,
                                       "SPIDR control (0x05)")
                     IN IF decode_spidr_control(word)
                        THEN incrementChunkCount(p1) ELSE p1
                [] OTHER ->
                     IF enable_accounting
                     THEN incrementUnknownPacket(
                              addPacketBytes(counted,
                                             UnknownLabel(packet_type), 8))
                     ELSE counted

(***************************************************************************)
(* DecodeDispatcher (main.cpp)                                             *)
(***************************************************************************)

\* the decode workers: --decode-workers 2
Workers == {0, 1}

\* worker_data_.size()
NumWorkers == Cardinality(Workers)

\* DecodeTask
DecodeTask(word, chip_index, chunk_meta) ==
    [word |-> word, chip_index |-> chip_index, chunk_meta |-> chunk_meta]

NoTask == [word |-> <<>>]

\* PartialStats after reset(recent_capacity)
ResetPartialStats ==
    [hits |-> 0, tdc1 |-> 0, tdc2 |-> 0,
     earliest_hit_tick |-> UINT64_MAX, latest_hit_tick |-> 0,
     earliest_tdc1_tick |-> UINT64_MAX, latest_tdc1_tick |-> 0,
     chip_hits |-> [c \in ChipSlots |-> 0],
     chip_tdc1 |-> [c \in ChipSlots |-> 0],
     chip_tdc2 |-> [c \in ChipSlots |-> 0],
     chip_tdc1_min |-> [c \in ChipSlots |-> UINT64_MAX],
     chip_tdc1_max |-> [c \in ChipSlots |-> 0],
     recent_hits |-> <<>>]

\* the recent-hit loop of mergeInto
RECURSIVE MergeRecentHits(_, _, _)
MergeRecentHits(p, hits, i) ==
    IF i > Len(hits) THEN p
    ELSE MergeRecentHits(PushRecentHit(p, hits[i]), hits, i + 1)

\* PartialStats::mergeInto(processor)
mergeInto(s, p) ==
    LET Counts(q) ==
            [q EXCEPT
               !.total_hits = @ + s.hits,
               !.total_tdc1_events = @ + s.tdc1,
               !.total_tdc2_events = @ + s.tdc2,
               !.total_tdc_events = @ + (s.tdc1 + s.tdc2),
               !.chip_hit_totals_ =
                   [c \in ChipSlots |-> @[c] + s.chip_hits[c]],
               !.chip_hit_rate_valid =
                   [c \in ChipSlots |-> @[c] \/ s.chip_hits[c] > 0],
               !.chip_tdc1_counts =
                   [c \in ChipSlots |-> @[c] + s.chip_tdc1[c]],
               !.chip_tdc1_present =
                   [c \in ChipSlots |-> @[c] \/ s.chip_tdc1[c] > 0],
               !.chip_tdc1_min_ticks_ =
                   [c \in ChipSlots |->
                      IF s.chip_tdc1[c] > 0
                      THEN Min(@[c], s.chip_tdc1_min[c]) ELSE @[c]],
               !.chip_tdc1_max_ticks_ =
                   [c \in ChipSlots |->
                      IF s.chip_tdc1[c] > 0
                      THEN Max(@[c], s.chip_tdc1_max[c]) ELSE @[c]]]
        EarliestHit(q) ==
            IF s.hits > 0
               /\ (~q.hit_time_initialized
                   \/ s.earliest_hit_tick < q.earliest_hit_time_ticks)
            THEN [q EXCEPT !.earliest_hit_time_ticks = s.earliest_hit_tick,
                           !.hit_time_initialized = TRUE]
            ELSE q
        LatestHit(q) ==
            IF s.hits > 0 /\ s.latest_hit_tick > q.latest_hit_time_ticks
            THEN [q EXCEPT !.latest_hit_time_ticks = s.latest_hit_tick]
            ELSE q
        EarliestTdc1(q) ==
            IF s.tdc1 > 0
               /\ (~q.tdc1_time_initialized
                   \/ s.earliest_tdc1_tick < q.earliest_tdc1_time_ticks)
            THEN [q EXCEPT !.earliest_tdc1_time_ticks = s.earliest_tdc1_tick,
                           !.tdc1_time_initialized = TRUE]
            ELSE q
        LatestTdc1(q) ==
            IF s.tdc1 > 0 /\ s.latest_tdc1_tick > q.latest_tdc1_time_ticks
            THEN [q EXCEPT !.latest_tdc1_time_ticks = s.latest_tdc1_tick]
            ELSE q
        Recent(q) ==
            IF q.recent_hit_capacity_ > 0
            THEN MergeRecentHits(q, s.recent_hits, 1)
            ELSE q
    IN IF s.hits = 0 /\ s.tdc1 = 0 /\ s.tdc2 = 0 /\ s.recent_hits = <<>>
       THEN p
       ELSE Recent(LatestTdc1(EarliestTdc1(LatestHit(EarliestHit(
                Counts(p))))))

(***************************************************************************)
(* The per-chip arrays of PartialStats are std::array<uint64_t, 4> indexed *)
(* with the 8-bit chip index of the task without a range test.  An index   *)
(* of 4 or more is an out-of-range access.  The five arrays are adjacent   *)
(* members, so the elements just past one array are those of the arrays    *)
(* that follow it in the same object.  A larger offset leaves the          *)
(* PartialStats: depending on the index and on how the WorkerData objects  *)
(* lie on the heap, the store falls on memory that is no part of the       *)
(* modelled state or on a counter of another worker.                       *)
(***************************************************************************)
ChipArrays ==
    <<"chip_hits", "chip_tdc1", "chip_tdc2", "chip_tdc1_min", "chip_tdc1_max">>

ArrayPosition(array) == CHOOSE k \in 1..5 : ChipArrays[k] = array

\* the value a per-chip store writes over v: ++, std::min or std::max
StoredValue(update, v, ts) ==
    CASE update = "increment" -> Add64(v, 1)
      [] update = "min" -> Min(v, ts)
      [] update = "max" -> Max(v, ts)

\* all[w].array[index] is updated; the set of possible results
ArrayStore(all, w, array, index, update, ts) ==
    LET slot == (ArrayPosition(array) - 1) * 4 + index
    IN IF index < 4
       THEN {[all EXCEPT ![w][array][index] = StoredValue(update, @, ts)]}
       ELSE IF slot < 20
       THEN {[all EXCEPT ![w][ChipArrays[(slot \div 4) + 1]][slot % 4] =
                             StoredValue(update, @, ts)]}
       ELSE {all} \cup {[all EXCEPT ![v].hits = StoredValue(update, @, ts)] :
                          v \in Workers \ {w}}

\* the same store applied to every member of a set of candidate states
ArrayStoreAll(alls, w, array, index, update, ts) ==
    UNION {ArrayStore(all, w, array, index, update, ts) : all \in alls}

\* result of processDecoded: the workers' partial statistics and the
\* aggregator
DecodeOutcome(all, p) == [stats |-> all, processor |-> p]

\* TaskMetadata reading the parser's StreamState instead of the task's copy
ParserMetadata(task) == state.chunk_meta

\* task.chunk_meta: DecodeTask holds the ChunkMetadata by value
TaskMetadata(task) == task.chunk_meta

\* processDecoded, pixel branch
DecodePixelTask(all, p, w, task) ==
    LET Extended(hit) ==
            IF TaskMetadata(task).has_extra_packets
            THEN [hit EXCEPT !.toa_ns =
                     extend_timestamp(@ % (2 ^ 30),
                         TaskMetadata(task).min_timestamp_ns, 30)]
            ELSE hit
        Ticks(a, hit) ==
            [a EXCEPT
               ![w].earliest_hit_tick = Min(@, hit.toa_ns),
               ![w].latest_hit_tick = Max(@, hit.toa_ns),
               ![w].recent_hits =
                   IF p.recent_hit_capacity_ > 0
                      /\ Len(@) < p.recent_hit_capacity_
                   THEN Append(@, hit) ELSE @]
        Record(hit) ==
            {DecodeOutcome(Ticks(a, hit), p) :
               a \in ArrayStore([all EXCEPT ![w].hits = @ + 1], w,
                                "chip_hits", hit.chip_index, "increment", 0)}
    IN Record(Extended(decode_pixel_data(task.word, task.chip_index).value))

\* processDecoded, TDC branch
DecodeTdcTask(all, p, w, task) ==
    LET chip == task.chip_index
        Tdc1(ts) ==
            ArrayStoreAll(
              ArrayStoreAll(
                {[a EXCEPT ![w].earliest_tdc1_tick = Min(@, ts),
                           ![w].latest_tdc1_tick = Max(@, ts)] :
                   a \in ArrayStore([all EXCEPT ![w].tdc1 = @ + 1], w,
                                    "chip_tdc1", chip, "increment", 0)},
                w, "chip_tdc1_min", chip, "min", ts),
              w, "chip_tdc1_max", chip, "max", ts)
        Tdc2 ==
            ArrayStore([all EXCEPT ![w].tdc2 = @ + 1], w, "chip_tdc2", chip,
                       "increment", 0)
        Record(d) ==
            IF ~d.ok
            THEN {DecodeOutcome(all,
                     process_packet(p, task.word, chip, task.chunk_meta,
                                    TRUE))}
            ELSE IF d.value.type \in {TDC1_RISE, TDC1_FALL}
            THEN {DecodeOutcome(a, p) : a \in Tdc1(d.value.timestamp_ns)}
            ELSE IF d.value.type \in {TDC2_RISE, TDC2_FALL}
            THEN {DecodeOutcome(a, p) : a \in Tdc2}
            ELSE {DecodeOutcome(all, p)}
    IN Record(decode_tdc_data(task.word))

\* processDecoded(task, data) on worker w: the set of possible outcomes
processDecoded(all, p, w, task) ==
    IF FullType(task.word) \in
         {SPIDR_PACKET_ID, TPX3_CONTROL, EXTRA_TIMESTAMP,
          EXTRA_TIMESTAMP_MPX3, GLOBAL_TIME_LOW, GLOBAL_TIME_HIGH}
    THEN {DecodeOutcome(all,
             process_packet(p, task.word, task.chip_index,
                            task.chunk_meta, TRUE))}
    ELSE IF PacketType(task.word) \in {PIXEL_COUNT_FB, PIXEL_STANDARD}
    THEN DecodePixelTask(all, p, w, task)
    ELSE IF PacketType(task.word) = TDC_DATA
    THEN DecodeTdcTask(all, p, w, task)
    ELSE {DecodeOutcome(all,
             process_packet(p, task.word, task.chip_index,
                            task.chunk_meta, TRUE))}

\* cond.notify_one / notify_all on worker w's condition variable: a worker
\* blocked in cond.wait resumes at the predicate test
Notified(pcs, w) ==
    IF pcs[w] = "waiting" THEN [pcs EXCEPT ![w] = "lock"] ELSE pcs

(***************************************************************************)
(* process_raw_data (main.cpp): the frame parser                           *)
(*                                                                         *)
(* The parser works on a context: the aggregator, the StreamState, the     *)
(* reorder buffer with its callback log, and the part of the dispatcher a  *)
(* submit touches (queues, pending count, worker positions).  cfg holds    *)
(* the command-line choices: use_dispatcher (worker_count > 1),            *)
(* use_reorder (--reorder), enable_accounting (not --stats-final-only).    *)
(***************************************************************************)

\* constexpr uint64_t TPX3_MAGIC = 0x33585054
TPX3_MAGIC == 861425748

\* constexpr size_t BATCH_SIZE = 128
BATCH_SIZE == 128

\* constexpr uint64_t CHUNK_UPDATE_BATCH = 100
CHUNK_UPDATE_BATCH == 100

\* StreamState()
NewStreamState ==
    [in_chunk |-> FALSE,
     chunk_words_remaining |-> 0,
     chip_index |-> 0,
     current_chunk_id |-> 0,
     pending_chunk_updates |-> 0,
     chunk_meta |-> NoChunkMetadata,
     extra_timestamps |-> <<>>,
     saw_first_chunk_header |-> FALSE,
     mid_stream_flagged |-> FALSE,
     batch_buffer |-> <<>>]

\* (word & 0xFFFFFFFF) == TPX3_MAGIC
IsChunkHeader(word) == word[3] * 65536 + word[4] = TPX3_MAGIC

\* decode_extra_timestamp (the timestamp field, bits 53-0)
decode_extra_timestamp(data) ==
    [is_tpx3 |-> FullType(data) = 81,
     error_flag |-> Bit(data, 55) # 0,
     overflow_flag |-> Bit(data, 54) # 0,
     timestamp_ns |-> get_bits(data, 53, 0)]

\* decode_spidr_packet_id: the packet count (bits 47-0)
decode_spidr_packet_id(data) ==
    [ok |-> FullType(data) = 80, packet_count |-> get_bits(data, 47, 0)]

\* the SPIDR packet-id word that carries a given count
SpidrPacketWord(packet_count) == <<20480, 0, 0, packet_count>>

ParseContext(p, st, lcc, rb, out, sub, wq, pending, wpc) ==
    [p |-> p, st |-> st, lcc |-> lcc, rb |-> rb, out |-> out, sub |-> sub,
     wq |-> wq, pending |-> pending, wpc |-> wpc]

\* DecodeDispatcher::submitBatch(words, chip_index, meta); submit is the
\* one-word case
RECURSIVE AppendTasks(_, _, _, _, _)
AppendTasks(queue, words, i, chip_index, meta) ==
    IF i > Len(words) THEN queue
    ELSE AppendTasks(Append(queue, DecodeTask(words[i], chip_index, meta)),
                     words, i + 1, chip_index, meta)

submitBatch(ctx, words, chip_index, meta) ==
    IF words = <<>> THEN ctx
    ELSE LET index == chip_index % NumWorkers
         IN [ctx EXCEPT
               !.pending = @ + Len(words),
               !.wq[index] = AppendTasks(@, words, 1, chip_index, meta),
               !.wpc = Notified(@, index)]

\* process_packet over the words of a batch, in order
RECURSIVE ProcessWords(_, _, _, _, _, _)
ProcessWords(p, words, i, chip_index, meta, enable_accounting) ==
    IF i > Len(words) THEN p
    ELSE ProcessWords(
             process_packet(p, words[i], chip_index, meta, enable_accounting),
             words, i + 1, chip_index, meta, enable_accounting)

\* flushBatch
flushBatch(ctx, cfg) ==
    LET Cleared(handed) == [handed EXCEPT !.st.batch_buffer = <<>>]
    IN IF ctx.st.batch_buffer = <<>> THEN ctx
       ELSE IF cfg.use_dispatcher
       THEN Cleared(submitBatch(ctx, ctx.st.batch_buffer, ctx.st.chip_index,
                                ctx.st.chunk_meta))
       ELSE Cleared([ctx EXCEPT !.p =
                        ProcessWords(@, ctx.st.batch_buffer, 1,
                                     ctx.st.chip_index, ctx.st.chunk_meta,
                                     cfg.enable_accounting)])

\* the reorder callback of process_raw_data applied to the packets the
\* buffer released from log position i on
RECURSIVE ReorderCallbacks(_, _, _, _)
ReorderCallbacks(ctx, cfg, log, i) ==
    IF i > Len(log) THEN ctx
    ELSE IF cfg.use_dispatcher
    THEN ReorderCallbacks(
             submitBatch(ctx, <<SpidrPacketWord(log[i].packet_id)>>,
                         ctx.st.chip_index, ctx.st.chunk_meta),
             cfg, log, i + 1)
    ELSE ReorderCallbacks(
             [ctx EXCEPT !.p =
                 process_packet(@, SpidrPacketWord(log[i].packet_id),
                                ctx.st.chip_index, ctx.st.chunk_meta,
                                cfg.enable_accounting)],
             cfg, log, i + 1)

\* process_raw_data, loop body: a chunk header
ParseHeader(ctx0, cfg, word) ==
    LET Counted(p, updates) ==
            IF updates >= CHUNK_UPDATE_BATCH
            THEN incrementChunkCountBatch(p, updates) ELSE p
        Pending(updates) ==
            IF updates >= CHUNK_UPDATE_BATCH THEN 0 ELSE updates
        Header(ctx, id) ==
            [ctx EXCEPT
               !.p = Counted(Account(@, cfg.enable_accounting, "Chunk header"),
                             ctx.st.pending_chunk_updates + 1),
               !.lcc = id,
               !.rb = IF cfg.use_reorder THEN ResetForNewChunk(@, id) ELSE @,
               !.st = [@ EXCEPT
                         !.saw_first_chunk_header = TRUE,
                         !.in_chunk = TRUE,
                         !.chunk_words_remaining =
                             get_bits(word, 63, 48) \div 8,
                         !.chip_index = get_bits(word, 39, 32),
                         !.current_chunk_id = id,
                         !.pending_chunk_updates = Pending(@ + 1),
                         !.chunk_meta = NoChunkMetadata,
                         !.extra_timestamps = <<>>]]
    IN Header(flushBatch(ctx0, cfg), ctx0.lcc + 1)

\* process_raw_data, loop body: a word outside any chunk
ParseOutsideChunk(ctx, cfg) ==
    LET Flagged(flag) ==
            [ctx EXCEPT
               !.p = Account(IF flag THEN markMidStreamStart(@) ELSE @,
                             cfg.enable_accounting,
                             "Unassigned (outside chunk)"),
               !.st.mid_stream_flagged = @ \/ flag]
    IN Flagged(~ctx.st.saw_first_chunk_header /\ ~ctx.st.mid_stream_flagged)

\* process_raw_data, loop body: an extra-timestamp word near the chunk end
ParseExtraTimestamp(ctx0, cfg, word) ==
    LET Metadata(meta, extras) ==
            IF Len(extras) = 3
            THEN ChunkMetadata(extras[1].timestamp_ns,
                               extras[2].timestamp_ns,
                               extras[3].timestamp_ns, TRUE)
            ELSE meta
        Extra(ctx, extras) ==
            [ctx EXCEPT
               !.p = Account(@, cfg.enable_accounting,
                        format_type_label("Extra timestamp", FullType(word))),
               !.st.extra_timestamps = extras,
               !.st.chunk_meta = Metadata(@, extras)]
    IN Extra(flushBatch(ctx0, cfg),
             Append(ctx0.st.extra_timestamps, decode_extra_timestamp(word)))

\* process_raw_data, loop body: a SPIDR packet-id word with a reorder buffer
ParseSpidrPacket(ctx0, cfg, word) ==
    LET Released(ctx, id, rs) ==
            ReorderCallbacks(
                [ctx EXCEPT
                   !.rb = rs.rb, !.out = rs.out,
                   !.sub = Append(@, [packet_id |-> id,
                                      chunk_id |-> ctx.st.current_chunk_id])],
                cfg, rs.out, Len(ctx.out) + 1)
        Reorder(ctx, id) ==
            Released(ctx, id,
                     ProcessPacket(WithOut(ctx.rb, ctx.out), id,
                                   ctx.st.current_chunk_id))
    IN Reorder(flushBatch(ctx0, cfg),
               decode_spidr_packet_id(word).packet_count)

\* process_raw_data, loop body: any other word goes to the batch buffer
ParseRegular(ctx, cfg, word) ==
    IF Len(ctx.st.batch_buffer) + 1 >= BATCH_SIZE
    THEN flushBatch([ctx EXCEPT !.st.batch_buffer = Append(@, word)], cfg)
    ELSE [ctx EXCEPT !.st.batch_buffer = Append(@, word)]

\* process_raw_data, loop body: a word inside a chunk
ParseInChunk(ctx0, cfg, word) ==
    LET Handled(ctx) ==
            IF ctx.st.chunk_words_remaining <= 3
               /\ FullType(word) \in {EXTRA_TIMESTAMP, EXTRA_TIMESTAMP_MPX3}
            THEN ParseExtraTimestamp(ctx, cfg, word)
            ELSE IF FullType(word) = SPIDR_PACKET_ID /\ cfg.use_reorder
            THEN ParseSpidrPacket(ctx, cfg, word)
            ELSE ParseRegular(ctx, cfg, word)
        ChunkEnd(ctx) ==
            IF ctx.st.chunk_words_remaining = 0
            THEN [flushBatch(ctx, cfg) EXCEPT !.st.in_chunk = FALSE]
            ELSE ctx
    IN ChunkEnd(Handled([ctx0 EXCEPT !.st.chunk_words_remaining = @ - 1]))

\* process_raw_data: one iteration of the loop over the words
ParseWord(ctx, cfg, word) ==
    IF IsChunkHeader(word) THEN ParseHeader(ctx, cfg, word)
    ELSE IF ~ctx.st.in_chunk \/ ctx.st.chunk_words_remaining = 0
    THEN ParseOutsideChunk(ctx, cfg)
    ELSE ParseInChunk(ctx, cfg, word)

\* process_raw_data: after the loop
ParseEnd(ctx0, cfg) ==
    LET Chunks(p, updates) ==
            IF updates > 0 THEN incrementChunkCountBatch(p, updates) ELSE p
        End(ctx) ==
            [ctx EXCEPT
               !.p = IF cfg.use_reorder
                     THEN updateReorderStats(
                              Chunks(@, ctx.st.pending_chunk_updates),
                              ctx.rb.stats_)
                     ELSE Chunks(@, ctx.st.pending_chunk_updates),
               !.st.pending_chunk_updates = 0]
    IN End(flushBatch(ctx0, cfg))

\* process_raw_data(buffer, 8 * Len(words), ...)
RECURSIVE ParseWords(_, _, _, _)
ParseWords(ctx, cfg, words, i) ==
    IF i > Len(words) THEN ctx
    ELSE ParseWords(ParseWord(ctx, cfg, words[i]), cfg, words, i + 1)

process_raw_data(ctx, cfg, words) == ParseEnd(ParseWords(ctx, cfg, words, 1), cfg)

(***************************************************************************)
(* RingBuffer (ring_buffer.h, ring_buffer.cpp): a byte ring with one       *)
(* writer thread calling write() and one reader thread calling read().     *)
(* head_ and tail_ are atomic size_t counters that only grow and are       *)
(* masked for indexing.  A call is modelled by its atomic loads (one       *)
(* step), its memcpy (one step per byte, the copy is not atomic) and its   *)
(* atomic store (one step).  The release store and the acquire load of a   *)
(* counter order the copies around them, so the steps of the two threads   *)
(* interleave as written.                                                  *)
(*                                                                         *)
(* The k-th byte of the writer's stream has the value k, and buffer_       *)
(* starts with zeros, so that a byte read twice, out of order, or never    *)
(* written shows in the values returned.                                   *)
(***************************************************************************)

\* no RingBuffer has been constructed
NoRingBuffer == [size_ |-> 0]

\* the while loop of RingBuffer::roundUpToPowerOf2
RECURSIVE NextPower(_, _)
NextPower(power, n) == IF power < n THEN NextPower(power * 2, n) ELSE power

\* RingBuffer::roundUpToPowerOf2(n)
roundUpToPowerOf2(n) == IF n = 0 THEN 1 ELSE NextPower(1, n)

\* x & mask(), with mask() = size_ - 1 and size_ a power of two
Masked(x, size) == x % size

\* RingBuffer::RingBuffer(size_bytes); the two threads are between calls
NewRingBuffer(size_bytes) ==
    LET size == roundUpToPowerOf2(size_bytes)
    IN  [size_ |-> size,
         buffer_ |-> [i \in 0..(size - 1) |-> 0],
         head_ |-> 0,
         tail_ |-> 0,
         writer |-> [pc |-> "idle", ret |-> 0],
         reader |-> [pc |-> "idle", ret |-> 0],
         accepted |-> <<>>,
         returned |-> <<>>]

\* available_space without the byte kept free
available_space_full(size, current_head, current_tail) ==
    IF current_head > current_tail
    THEN Sub64(current_head, current_tail)
    ELSE Sub64(size, Sub64(current_tail, current_head))

\* write: the available space computed from the two loaded counters
available_space(size, current_head, current_tail) ==
    IF current_head > current_tail
    THEN Sub64(Sub64(current_head, current_tail), 1)
    ELSE Sub64(Sub64(size, Sub64(current_tail, current_head)), 1)

\* read: the available data computed from the two loaded counters
available_data(current_head, current_tail) ==
    IF current_tail >= current_head
    THEN Sub64(current_tail, current_head)
    ELSE 0

\* the index of buffer_ that the memcpy calls of write and read use for
\* byte k of the caller's array, the call having started at counter value
\* start: one contiguous copy, or two parts when the copy wraps
CopyIndex(size, start, copy_size, k) ==
    LET start_masked == Masked(start, size)
        space_to_end == size - start_masked
    IN  IF copy_size <= space_to_end
        THEN start_masked + k
        ELSE IF k < space_to_end THEN start_masked + k ELSE k - space_to_end

\* write(data, size), size > 0: the loads of tail_ and head_ and the test
\* for a full buffer; data holds the next size bytes of the stream
writeLoad(r, size) ==
    LET current_tail == r.tail_
        current_head == r.head_
        write_size == Min(size, available_space(r.size_, current_head,
                                                current_tail))
    IN  IF write_size = 0
        THEN [r EXCEPT !.writer = [pc |-> "idle", ret |-> 0]]
        ELSE [r EXCEPT !.writer = [pc |-> "copy", ret |-> r.writer.ret,
                                   first |-> Len(r.accepted) + 1,
                                   current_tail |-> current_tail,
                                   write_size |-> write_size,
                                   copied |-> 0]]

\* write: memcpy stores the next byte
writeCopy(r) ==
    LET w == r.writer
        index == CopyIndex(r.size_, w.current_tail, w.write_size, w.copied)
    IN  [r EXCEPT !.buffer_[index] = w.first + w.copied,
                  !.writer.copied = @ + 1,
                  !.writer.pc = IF w.copied + 1 = w.write_size
                                THEN "store" ELSE "copy"]

\* write: tail_.store(current_tail + write_size) and return write_size
writeStore(r) ==
    LET w == r.writer
    IN  [r EXCEPT !.tail_ = Add64(w.current_tail, w.write_size),
                  !.writer = [pc |-> "idle", ret |-> w.write_size],
                  !.accepted = @ \o [k \in 1..w.write_size |->
                                         w.first + k - 1]]

\* read(data, size), size > 0: the loads of head_ and tail_ and the test
\* for an empty buffer
readLoad(r, size) ==
    LET current_head == r.head_
        current_tail == r.tail_
        read_size == Min(size, available_data(current_head, current_tail))
    IN  IF read_size = 0
        THEN [r EXCEPT !.reader = [pc |-> "idle", ret |-> 0]]
        ELSE [r EXCEPT !.reader = [pc |-> "copy", ret |-> r.reader.ret,
                                   current_head |-> current_head,
                                   read_size |-> read_size,
                                   data |-> <<>>]]

\* read: memcpy loads the next byte
readCopy(r) ==
    LET d == r.reader
        index == CopyIndex(r.size_, d.current_head, d.read_size, Len(d.data))
    IN  [r EXCEPT !.reader.data = Append(@, r.buffer_[index]),
                  !.reader.pc = IF Len(d.data) + 1 = d.read_size
                                THEN "store" ELSE "copy"]

\* read: head_.store(current_head + read_size) and return read_size
readStore(r) ==
    LET d == r.reader
    IN  [r EXCEPT !.head_ = Add64(d.current_head, d.read_size),
                  !.reader = [pc |-> "idle", ret |-> d.read_size],
                  !.returned = @ \o d.data]
(***************************************************************************)
(* Initial states of the objects                                           *)
(***************************************************************************)

\* PacketReorderBuffer(reorder_window_size, true) and a fresh StreamState
ReorderInit(window) ==
    /\ reorder_buffer = NewReorderBuffer(window)
    /\ local_chunk_count = 0
    /\ released = <<>>
    /\ submitted = <<>>

\* main: size_t recent_hit_count = 10 (the --recent-hit-count default)
recent_hit_count == 10

\* the thread that uses the dispatcher, between two calls
MainIdle ==
    [pc |-> "run", op |-> "none", index |-> 0, local |-> ResetPartialStats,
     task |-> NoTask]

NoHistory(capacity) ==
    [reference |-> NewHitProcessor(capacity),
     submitted |-> 0, decoded |-> 0, calls |-> 0,
     accumulated |-> [hits |-> 0, tdc1 |-> 0, tdc2 |-> 0],
     waited |-> FALSE, stop_backlog |-> 0,
     sent |-> EmptyMap, done |-> EmptyMap, hits |-> <<>>]

\* history.sent and history.done log, per chip index, the words submitted
\* and the words decoded, each with the chunk metadata and the chunk id the
\* parser held at that moment

\* the per-chip log with further entries for chip_index
Logged(log, chip_index, entries) ==
    MapPut(log, chip_index,
           (IF chip_index \in DOMAIN log THEN log[chip_index] ELSE <<>>)
               \o entries)

\* HitProcessor::mutex_ unlocked, no process_packet and no getStatistics
\* call in progress; committed collects the aggregator states left behind
\* by whole calls
AccessInit(capacity) ==
    [owner |-> "none", entered |-> NewHitProcessor(capacity),
     calls |-> [w \in Workers |-> <<>>],
     reader |-> "idle", snapshot |-> NewHitProcessor(capacity), taken |-> 0,
     committed |-> {NewHitProcessor(capacity)}]

\* HitProcessor with --recent-hit-count capacity, and the DecodeDispatcher
\* constructed over it: empty queues, reset partial statistics, worker
\* threads started
DispatcherInit(capacity) ==
    /\ processor = NewHitProcessor(capacity)
    /\ worker_queue = [w \in Workers |-> <<>>]
    /\ worker_stats = [w \in Workers |-> ResetPartialStats]
    /\ pending_tasks_ = 0
    /\ stop_ = FALSE
    /\ worker_pc = [w \in Workers |-> "lock"]
    /\ worker_task = [w \in Workers |-> NoTask]
    /\ main = MainIdle
    /\ history = NoHistory(capacity)
    /\ access = AccessInit(capacity)

\* the command-line choices: worker_count > 1, --reorder,
\* not --stats-final-only, --exit-on-disconnect
Config(use_dispatcher, use_reorder, enable_accounting, exit_on_disconnect) ==
    [use_dispatcher |-> use_dispatcher, use_reorder |-> use_reorder,
     enable_accounting |-> enable_accounting,
     exit_on_disconnect |-> exit_on_disconnect]

\* a fresh StreamState, no process_raw_data call made yet
\* no decoder function has been called on its own
NoCall == [function |-> "none"]

ParserInit(cfg) ==
    /\ state = NewStreamState
    /\ parser = [in_call |-> FALSE, words |-> 0, handed |-> <<>>]
    /\ config = cfg
    /\ fcall = NoCall
    /\ ring = NoRingBuffer

\* TCPServer::ConnectionStats, value-initialised
ConnectionStats ==
    [connection_attempts |-> 0, successful_connections |-> 0,
     disconnections |-> 0, reconnect_errors |-> 0, bytes_received |-> 0,
     bytes_dropped_incomplete |-> 0, recv_errors |-> 0]

\* main: size_t queue_size = 2000 (the --queue-size default)
queue_size == 2000

\* TCPServer::TCPServer, RawDataQueue::RawDataQueue, and the processing
\* thread about to call pop; run() is about to connect.  With --input-file
\* main reads the file instead and builds neither server nor queue thread.
\* Bytes are named by their position in the stream they arrive on.
TcpInit(max_buffers, file_mode) ==
    /\ tcp = [pc |-> IF file_mode THEN "unused" ELSE "connect",
              connected_ |-> FALSE, should_stop_ |-> FALSE,
              incomplete_buffer_ |-> <<>>, incomplete_buffer_size_ |-> 0,
              stats_ |-> ConnectionStats, recvs |-> 0,
              conn_bytes |-> 0, delivered |-> <<>>]
    /\ data_queue = [queue_ |-> <<>>, max_buffers_ |-> max_buffers,
                     stop_ |-> FALSE, dropped_buffers_ |-> 0,
                     pushed |-> <<>>, refused |-> <<>>, empty_pops |-> 0]
    /\ consumer = [pc |-> IF file_mode THEN "unused" ELSE "pop",
                   total_bytes_received |-> 0,
                   total_packets_received |-> 0, drained |-> 0]
    /\ file = [pc |-> IF file_mode THEN "read" ELSE "unused",
               leftover |-> <<>>, bytes_dropped_incomplete |-> 0,
               reads |-> 0, delivered |-> <<>>]

(***************************************************************************)
(* The dispatcher and a client thread that calls its public operations     *)
(* (submit, flushAll, waitUntilIdle, stop) in any order.                   *)
(*                                                                         *)
(* Worker positions: "lock" (about to take data.mutex and evaluate the     *)
(* wait predicate), "wait_locked" (predicate found false, mutex still      *)
(* held, not yet blocked), "waiting" (blocked in cond.wait), "decode",     *)
(* "complete" (about to fetch_sub), "notify_idle", "exited".               *)
(* A thread blocked on a condition variable resumes only when notified:    *)
(* spurious wake-ups are permitted by the library, never guaranteed.       *)
(***************************************************************************)

\* words the client submits
PixelWordA == <<45056, 1, 0, 0>>      \* 0xB000 0001 ...: standard, ToA 4
PixelWordB == <<40960, 0, 16, 0>>     \* 0xA000 ... 0010 ...: count_fb, count 1
Tdc1Word == <<28416, 0, 0, 672>>      \* 0x6F00 ... 02A0: TDC1 rise, fract 5
Tdc2Word == <<28160, 0, 0, 32>>       \* 0x6E00 ... 0020: TDC2 rise, fract 1
TdcBadWord == <<28416, 0, 0, 416>>    \* 0x6F00 ... 01A0: fract 13

DWords == {PixelWordA, Tdc1Word}

\* chip indexes of the submitted tasks: in range on either shard, and out of
\* the range of the per-chip arrays
DChips == {0, 51}

\* the mutex of worker w's queue is held by w between finding the wait
\* predicate false and blocking
QueueMutexFree(w) == worker_pc[w] # "wait_locked"

\* total of one counter over the workers' partial statistics
RECURSIVE SumOver(_, _, _)
SumOver(all, field, ws) ==
    IF ws = {} THEN 0
    ELSE LET w == CHOOSE v \in ws : TRUE
         IN all[w][field] + SumOver(all, field, ws \ {w})

\* submit(word, chip_index, meta): pending_tasks_.fetch_add(1)
DSubmit ==
    /\ main.pc = "run"
    /\ history.submitted < MaxTasks
    /\ \E word \in DWords, chip_index \in DChips :
         /\ main' = [main EXCEPT !.pc = "submit_push", !.op = "submit",
                        !.task = DecodeTask(word, chip_index, NoChunkMetadata)]
         /\ history' = [history EXCEPT
                          !.submitted = @ + 1,
                          !.sent = Logged(@, chip_index,
                                          <<[word |-> word,
                                             chunk_meta |-> NoChunkMetadata,
                                             chunk |-> 0]>>),
                          !.reference = process_packet(@, word, chip_index,
                                            NoChunkMetadata, TRUE)]
    /\ pending_tasks_' = pending_tasks_ + 1
    /\ UNCHANGED <<processor, worker_queue, worker_stats, stop_, worker_pc,
                   worker_task, rvars, pvars, tvars, access>>

\* DSubmitPush without data.cond.notify_one()
DSubmitPushSilent ==
    /\ main.pc = "submit_push"
    /\ LET index == main.task.chip_index % NumWorkers
       IN /\ QueueMutexFree(index)
          /\ worker_queue' = [worker_queue EXCEPT
                                ![index] = Append(@, main.task)]
    /\ main' = [main EXCEPT !.pc = "run", !.task = NoTask]
    /\ UNCHANGED <<processor, worker_stats, pending_tasks_, stop_, worker_pc,
                   worker_task, history, rvars, pvars, tvars, access>>

\* submit: push under data.mutex, then data.cond.notify_one()
DSubmitPush ==
    /\ main.pc = "submit_push"
    /\ LET index == main.task.chip_index % NumWorkers
       IN /\ QueueMutexFree(index)
          /\ worker_queue' = [worker_queue EXCEPT
                                ![index] = Append(@, main.task)]
          /\ worker_pc' = Notified(worker_pc, index)
    /\ main' = [main EXCEPT !.pc = "run", !.task = NoTask]
    /\ UNCHANGED <<processor, worker_stats, pending_tasks_, stop_,
                   worker_task, history, rvars, pvars, tvars, access>>

\* the exit test of workerLoop after the wait
WorkerExitsOnStop(w) == stop_
WorkerShouldExit(w) == stop_ /\ worker_queue[w] = <<>>

\* PopTask taking the newest task of the queue instead of the oldest
PopNewest(queue) ==
    [task |-> queue[Len(queue)], rest |-> SubSeq(queue, 1, Len(queue) - 1)]

\* task = data.queue.front(); data.queue.pop()
PopTask(queue) == [task |-> Head(queue), rest |-> Tail(queue)]

\* workerLoop: lock data.mutex, evaluate the wait predicate; then block,
\* break, or pop the front task
WorkerLock(w) ==
    /\ worker_pc[w] = "lock"
    /\ IF ~(stop_ \/ worker_queue[w] # <<>>)
       THEN /\ worker_pc' = [worker_pc EXCEPT ![w] = "wait_locked"]
            /\ UNCHANGED <<worker_queue, worker_task>>
       ELSE IF WorkerShouldExit(w)
       THEN /\ worker_pc' = [worker_pc EXCEPT ![w] = "exited"]
            /\ UNCHANGED <<worker_queue, worker_task>>
       ELSE /\ worker_pc' = [worker_pc EXCEPT ![w] = "decode"]
            /\ worker_task' = [worker_task EXCEPT
                                 ![w] = PopTask(worker_queue[w]).task]
            /\ worker_queue' = [worker_queue EXCEPT ![w] = PopTask(@).rest]
    /\ UNCHANGED <<processor, worker_stats, pending_tasks_, stop_, main,
                   history, rvars, pvars, tvars, access>>

\* workerLoop: cond.wait releases data.mutex and blocks
WorkerBlock(w) ==
    /\ worker_pc[w] = "wait_locked"
    /\ worker_pc' = [worker_pc EXCEPT ![w] = "waiting"]
    /\ UNCHANGED <<processor, worker_queue, worker_stats, pending_tasks_,
                   stop_, worker_task, main, history, rvars, pvars, tvars,
                   access>>

\* workerLoop: processDecoded(task, data)
WorkerDecode(w) ==
    /\ worker_pc[w] = "decode"
    /\ \E o \in processDecoded(worker_stats, processor, w, worker_task[w]) :
         /\ worker_stats' = o.stats
         /\ processor' = o.processor
         /\ history' = [history EXCEPT
              !.decoded = @ + 1,
              !.done = Logged(@, worker_task[w].chip_index,
                              <<[word |-> worker_task[w].word,
                                 chunk_meta |-> state.chunk_meta,
                                 chunk |-> state.current_chunk_id]>>),
              !.accumulated =
                  [hits |-> @.hits
                      + SumOver(o.stats, "hits", Workers)
                      - SumOver(worker_stats, "hits", Workers)
                      + o.processor.total_hits - processor.total_hits,
                   tdc1 |-> @.tdc1
                      + SumOver(o.stats, "tdc1", Workers)
                      - SumOver(worker_stats, "tdc1", Workers)
                      + o.processor.total_tdc1_events
                      - processor.total_tdc1_events,
                   tdc2 |-> @.tdc2
                      + SumOver(o.stats, "tdc2", Workers)
                      - SumOver(worker_stats, "tdc2", Workers)
                      + o.processor.total_tdc2_events
                      - processor.total_tdc2_events]]
    /\ worker_pc' = [worker_pc EXCEPT ![w] = "complete"]
    /\ worker_task' = [worker_task EXCEPT ![w] = NoTask]
    /\ UNCHANGED <<worker_queue, pending_tasks_, stop_, main, rvars, pvars, tvars,
                   access>>

\* workerLoop going back to its wait without the fetch_sub
WorkerForgetsCompletion(w) ==
    /\ worker_pc[w] = "complete"
    /\ worker_pc' = [worker_pc EXCEPT ![w] = "lock"]
    /\ UNCHANGED <<processor, worker_queue, worker_stats, pending_tasks_,
                   stop_, worker_task, main, history, rvars, pvars, tvars,
                   access>>

\* workerLoop: remaining = pending_tasks_.fetch_sub(1) - 1
WorkerComplete(w) ==
    /\ worker_pc[w] = "complete"
    /\ pending_tasks_' = pending_tasks_ - 1
    /\ worker_pc' = [worker_pc EXCEPT
                       ![w] = IF pending_tasks_ - 1 = 0
                              THEN "notify_idle" ELSE "lock"]
    /\ UNCHANGED <<processor, worker_queue, worker_stats, stop_, worker_task,
                   main, history, rvars, pvars, tvars, access>>

\* workerLoop: lock pending_mutex_, idle_cv_.notify_all()
WorkerNotifyIdle(w) ==
    /\ worker_pc[w] = "notify_idle"
    /\ main.pc # "idle_locked"
    /\ worker_pc' = [worker_pc EXCEPT ![w] = "lock"]
    /\ main' = IF main.pc = "idle_blocked"
               THEN [main EXCEPT !.pc = "idle_check"] ELSE main
    /\ UNCHANGED <<processor, worker_queue, worker_stats, pending_tasks_,
                   stop_, worker_task, history, rvars, pvars, tvars,
                   access>>

\* flushAll() called by the client (the periodic statistics path)
DFlushAll ==
    /\ main.pc = "run"
    /\ history.calls < MaxCalls
    /\ main' = [main EXCEPT !.pc = "flush_copy", !.op = "flushAll",
                            !.index = 0]
    /\ history' = [history EXCEPT !.calls = @ + 1]
    /\ UNCHANGED <<processor, worker_queue, worker_stats, pending_tasks_,
                   stop_, worker_pc, worker_task, rvars, pvars, tvars,
                   access>>

\* flushWorker: under stats_mutex, local = data.stats; data.stats.reset()
DFlushCopy ==
    /\ main.pc = "flush_copy"
    /\ main' = [main EXCEPT !.pc = "flush_merge",
                            !.local = worker_stats[main.index]]
    /\ worker_stats' = [worker_stats EXCEPT ![main.index] = ResetPartialStats]
    /\ UNCHANGED <<processor, worker_queue, pending_tasks_, stop_, worker_pc,
                   worker_task, history, rvars, pvars, tvars, access>>

\* flushWorker: local.mergeInto(processor_); flushAll moves to the next
\* worker or returns
DFlushMerge ==
    /\ main.pc = "flush_merge"
    /\ processor' = mergeInto(main.local, processor)
    /\ main' = IF main.index + 1 < NumWorkers
               THEN [main EXCEPT !.pc = "flush_copy", !.index = @ + 1,
                                 !.local = ResetPartialStats]
               ELSE [main EXCEPT
                       !.pc = IF main.op = "stop" THEN "stopped" ELSE "run",
                       !.index = 0, !.local = ResetPartialStats]
    /\ UNCHANGED <<worker_queue, worker_stats, pending_tasks_, stop_,
                   worker_pc, worker_task, history, rvars, pvars, tvars,
                   access>>

\* waitUntilIdle() is called
DWaitUntilIdle ==
    /\ main.pc = "run"
    /\ history.calls < MaxCalls
    /\ main' = [main EXCEPT !.pc = "idle_check", !.op = "waitUntilIdle"]
    /\ history' = [history EXCEPT !.calls = @ + 1]
    /\ UNCHANGED <<processor, worker_queue, worker_stats, pending_tasks_,
                   stop_, worker_pc, worker_task, rvars, pvars, tvars,
                   access>>

\* the predicate of idle_cv_.wait
IdleAtMostOne == pending_tasks_ <= 1
IdlePredicate == pending_tasks_ = 0

\* waitUntilIdle: with pending_mutex_ held, evaluate the predicate; go on to
\* flushAll or prepare to block
DIdleCheck ==
    /\ main.pc = "idle_check"
    /\ main' = IF IdlePredicate
               THEN [main EXCEPT !.pc = "flush_copy", !.index = 0]
               ELSE [main EXCEPT !.pc = "idle_locked"]
    /\ UNCHANGED <<processor, worker_queue, worker_stats, pending_tasks_,
                   stop_, worker_pc, worker_task, history, rvars, pvars, tvars,
                   access>>

\* waitUntilIdle: idle_cv_.wait releases pending_mutex_ and blocks
DIdleBlock ==
    /\ main.pc = "idle_locked"
    /\ main' = [main EXCEPT !.pc = "idle_blocked"]
    /\ history' = [history EXCEPT !.waited = TRUE]
    /\ UNCHANGED <<processor, worker_queue, worker_stats, pending_tasks_,
                   stop_, worker_pc, worker_task, rvars, pvars, tvars,
                   access>>

\* stop(): stop_.compare_exchange_strong(false, true); data.mutex is not taken
DStop ==
    /\ main.pc = "run"
    /\ ~stop_
    /\ stop_' = TRUE
    /\ main' = [main EXCEPT !.pc = "stop_notify", !.op = "stop", !.index = 0]
    /\ history' = [history EXCEPT !.stop_backlog = pending_tasks_]
    /\ UNCHANGED <<processor, worker_queue, worker_stats, pending_tasks_,
                   worker_pc, worker_task, rvars, pvars, tvars,
                   access>>

\* stop(): data->cond.notify_all() for the next worker
DStopNotify ==
    /\ main.pc = "stop_notify"
    /\ worker_pc' = Notified(worker_pc, main.index)
    /\ main' = IF main.index + 1 < NumWorkers
               THEN [main EXCEPT !.index = @ + 1]
               ELSE [main EXCEPT !.pc = "stop_join", !.index = 0]
    /\ UNCHANGED <<processor, worker_queue, worker_stats, pending_tasks_,
                   stop_, worker_task, history, rvars, pvars, tvars,
                   access>>

\* stop(): every worker.join() has returned; workers_.clear(); flushAll()
DStopJoin ==
    /\ main.pc = "stop_join"
    /\ \A w \in Workers : worker_pc[w] = "exited"
    /\ main' = [main EXCEPT !.pc = "flush_copy", !.index = 0]
    /\ UNCHANGED <<processor, worker_queue, worker_stats, pending_tasks_,
                   stop_, worker_pc, worker_task, history, rvars, pvars, tvars,
                   access>>

DInit ==
    /\ ReorderInit(0)
    /\ DispatcherInit(recent_hit_count)
    /\ ParserInit(Config(TRUE, FALSE, TRUE, FALSE))
    /\ TcpInit(queue_size, FALSE)

DWorker(w) ==
    \/ WorkerLock(w)
    \/ WorkerBlock(w)
    \/ WorkerDecode(w)
    \/ WorkerComplete(w)
    \/ WorkerNotifyIdle(w)

DNext ==
    \/ DSubmit
    \/ DSubmitPush
    \/ DFlushAll
    \/ DFlushCopy
    \/ DFlushMerge
    \/ DWaitUntilIdle
    \/ DIdleCheck
    \/ DIdleBlock
    \/ DStop
    \/ DStopNotify
    \/ DStopJoin
    \/ \E w \in Workers : DWorker(w)

DSpec == DInit /\ [][DNext]_vars


\* worker w takes the next step of workerLoop: within DNext this is the
\* step of DWorker(w) at its position, the only one that moves worker_pc[w]
\* away from a position other than the blocked wait
WorkerRuns(w) ==
    /\ worker_pc[w] \in {"lock", "wait_locked", "decode", "complete",
                         "notify_idle"}
    /\ worker_pc[w] = "notify_idle" => main.pc # "idle_locked"
    /\ worker_pc' =
         [worker_pc EXCEPT ![w] =
            CASE @ = "lock" ->
                   IF ~(stop_ \/ worker_queue[w] # <<>>) THEN "wait_locked"
                   ELSE IF WorkerShouldExit(w) THEN "exited" ELSE "decode"
              [] @ = "wait_locked" -> "waiting"
              [] @ = "decode" -> "complete"
              [] @ = "complete" ->
                   IF pending_tasks_ - 1 = 0 THEN "notify_idle" ELSE "lock"
              [] @ = "notify_idle" -> "lock"]

\* flushWorker's merge returns: within DNext this is the step DFlushMerge
MergeReturns ==
    /\ main.pc = "flush_merge"
    /\ main' = IF main.index + 1 < NumWorkers
               THEN [main EXCEPT !.pc = "flush_copy", !.index = @ + 1,
                                 !.local = ResetPartialStats]
               ELSE [main EXCEPT
                       !.pc = IF main.op = "stop" THEN "stopped" ELSE "run",
                       !.index = 0, !.local = ResetPartialStats]

\* the worker threads are running threads, and so is the thread that calls
\* the dispatcher while it is inside submit, waitUntilIdle and flushAll:
\* each of them takes its next step when it can
DFairSpec ==
    /\ DSpec
    /\ \A w \in Workers : WF_worker_pc(WorkerRuns(w))
    /\ WF_vars(DSubmitPush)
    /\ WF_vars(DIdleCheck)
    /\ WF_vars(DIdleBlock)
    /\ WF_vars(DFlushCopy)
    /\ WF_main(MergeReturns)
(***************************************************************************)
(* The frame parser fed word by word, with or without the dispatcher and   *)
(* the reorder buffer.  The thread that parses is the dispatcher's client: *)
(* after a process_raw_data call it may call waitUntilIdle (the statistics *)
(* paths of main).                                                         *)
(***************************************************************************)

\* main: size_t reorder_window_size = 1000 (the --reorder-window default)
reorder_window_size == 1000

\* words handed to the parser
HeaderWord == <<16, 0, 13144, 20564>>        \* chunk header: size 16, chip 0
ExtraTimestampWord == <<20736, 0, 0, 64>>    \* 0x5100 ... 0040

\* the last two carry the chunk magic with size field 0 and size field 12
PWords == {HeaderWord, PixelWordA, Tdc1Word, SpidrPacketWord(0),
           ExtraTimestampWord,
           <<0, 0, 13144, 20564>>, <<12, 0, 13144, 20564>>}

\* without a dispatcher there are no worker threads
NoDispatcher(capacity) ==
    /\ processor = NewHitProcessor(capacity)
    /\ worker_queue = [w \in Workers |-> <<>>]
    /\ worker_stats = [w \in Workers |-> ResetPartialStats]
    /\ pending_tasks_ = 0
    /\ stop_ = FALSE
    /\ worker_pc = [w \in Workers |-> "absent"]
    /\ worker_task = [w \in Workers |-> NoTask]
    /\ main = MainIdle
    /\ history = NoHistory(capacity)
    /\ access = AccessInit(capacity)

\* the context process_raw_data works on, taken from the current state
CurrentContext ==
    ParseContext(processor, state, local_chunk_count, reorder_buffer,
                 released, submitted, worker_queue, pending_tasks_, worker_pc)

\* the next state holds the context ctx
ContextBecomes(ctx) ==
    /\ processor' = ctx.p
    /\ state' = ctx.st
    /\ local_chunk_count' = ctx.lcc
    /\ reorder_buffer' = ctx.rb
    /\ released' = ctx.out
    /\ submitted' = ctx.sub
    /\ worker_queue' = ctx.wq
    /\ pending_tasks_' = ctx.pending
    /\ worker_pc' = ctx.wpc

\* no worker holds its queue mutex
QueueMutexesFree == \A w \in Workers : QueueMutexFree(w)

PInit ==
    /\ \E d \in BOOLEAN, r \in BOOLEAN, a \in BOOLEAN :
         /\ ParserInit(Config(d, r, a, FALSE))
         /\ IF d THEN DispatcherInit(recent_hit_count)
                 ELSE NoDispatcher(recent_hit_count)
    /\ ReorderInit(reorder_window_size)
    /\ TcpInit(queue_size, FALSE)

\* history.sent with the tasks a parser step has appended to the worker
\* queues, each with the chunk metadata the parser held when the step began
\* (every flushBatch of a step precedes its metadata change)
SubmissionsLogged(ctx) ==
    LET Fresh(w) == SubSeq(ctx.wq[w], Len(worker_queue[w]) + 1,
                           Len(ctx.wq[w]))
        Entries(tasks) ==
            [i \in 1..Len(tasks) |->
                [word |-> tasks[i].word, chunk_meta |-> state.chunk_meta,
                 chunk |-> state.current_chunk_id]]
        With(log, tasks) ==
            IF tasks = <<>> THEN log
            ELSE Logged(log, tasks[1].chip_index, Entries(tasks))
    IN history' = [history EXCEPT !.sent = With(With(@, Fresh(0)), Fresh(1))]

\* process_raw_data: one iteration of the loop, on the next of at most
\* `limit` words drawn from `words`
PWord(words, limit) ==
    /\ main.pc = "run"
    /\ parser.words < limit
    /\ QueueMutexesFree
    /\ \E word \in words :
         /\ \E ctx \in {ParseWord(CurrentContext, config, word)} :
               ContextBecomes(ctx) /\ SubmissionsLogged(ctx)
         /\ parser' = [in_call |-> TRUE, words |-> parser.words + 1,
                       handed |-> Append(parser.handed, word)]
    /\ UNCHANGED <<worker_stats, stop_, worker_task, main, config, tvars, access,
                   fcall, ring>>

\* process_raw_data: the end of the buffer
PEndBuffer ==
    /\ main.pc = "run"
    /\ parser.in_call
    /\ QueueMutexesFree
    /\ \E ctx \in {ParseEnd(CurrentContext, config)} :
         ContextBecomes(ctx) /\ SubmissionsLogged(ctx)
    /\ parser' = [parser EXCEPT !.in_call = FALSE]
    /\ UNCHANGED <<worker_stats, stop_, worker_task, main, config, tvars, access,
                   fcall, ring>>

\* main: if (dispatcher) dispatcher->waitUntilIdle()
PWaitUntilIdle ==
    /\ config.use_dispatcher
    /\ ~parser.in_call
    /\ DWaitUntilIdle

PNext ==
    \/ PWord(PWords, MaxWords)
    \/ PEndBuffer
    \/ PWaitUntilIdle
    \/ DIdleCheck
    \/ DIdleBlock
    \/ DFlushCopy
    \/ DFlushMerge
    \/ \E w \in Workers : DWorker(w)

PSpec == PInit /\ [][PNext]_vars

(***************************************************************************)
(* The frame parser on chunks long enough to end with extra-timestamp      *)
(* words, with or without the dispatcher.                                  *)
(***************************************************************************)

\* words handed to the parser: chunk headers with size fields 32 and 40
\* (chip index 0), a pixel word, extra-timestamp words with timestamps 64
\* and 128
CWords == {<<32, 0, 13144, 20564>>, <<40, 0, 13144, 20564>>, PixelWordA,
           ExtraTimestampWord, <<20736, 0, 0, 128>>}

CInit ==
    /\ \E d \in BOOLEAN :
         /\ ParserInit(Config(d, FALSE, TRUE, FALSE))
         /\ IF d THEN DispatcherInit(recent_hit_count)
                 ELSE NoDispatcher(recent_hit_count)
    /\ ReorderInit(reorder_window_size)
    /\ TcpInit(queue_size, FALSE)

\* the parser and the workers; the client makes no statistics call
CNext ==
    \/ PWord(CWords, MaxChunkWords)
    \/ PEndBuffer
    \/ \E w \in Workers : DWorker(w)

CSpec == CInit /\ [][CNext]_vars

(***************************************************************************)
(* TCP mode of main: the network thread runs TCPServer::run and hands the  *)
(* complete words of every recv to RawDataQueue::push; the processing      *)
(* thread pops the buffers and parses them with process_raw_data.  The     *)
(* peer may close the connection or the socket may fail at any recv, and   *)
(* run() then connects again.  File mode: main reads the input file and     *)
(* parses the complete words of every read itself.                         *)
(***************************************************************************)

\* main: --queue-size N (std::stoul of the argument)
QueueSizes == {2, queue_size}

\* bytes a recv() returns
RecvSizes == {4, 8, 12}

\* the n bytes that follow the first `have` bytes of a stream
Bytes(have, n) == [i \in 1..n |-> have + i]

\* words the peer sends (or the file holds)
TWords == {HeaderWord, PixelWordA}

\* RawDataQueue::push(data, size) with the words of the buffer
push(q, words) ==
    IF q.stop_
    THEN [q EXCEPT !.pushed = Append(@, words),
                   !.refused = Append(@, words)]
    ELSE IF Len(q.queue_) >= q.max_buffers_
    THEN [q EXCEPT !.pushed = Append(@, words),
                   !.queue_ = Append(Tail(@), words),
                   !.dropped_buffers_ = @ + 1]
    ELSE [q EXCEPT !.pushed = Append(@, words),
                   !.queue_ = Append(@, words)]

\* RawDataQueue::stop
StopQueue(q) == [q EXCEPT !.stop_ = TRUE]

\* closeConnection with a connection callback that never stops the server
closeConnectionAndReconnect(t) ==
    LET cleared == [t EXCEPT
                      !.stats_.bytes_dropped_incomplete =
                          @ + t.incomplete_buffer_size_,
                      !.incomplete_buffer_size_ = 0]
    IN IF t.connected_
       THEN [cleared EXCEPT
               !.stats_.disconnections = @ + 1,
               !.connected_ = FALSE]
       ELSE cleared

\* TCPServer::closeConnection followed by the connection callback of main
\* (connected = false): the callback stops the queue and, with
\* --exit-on-disconnect, stops the server
closeConnection(t) ==
    LET cleared == [t EXCEPT
                      !.stats_.bytes_dropped_incomplete =
                          @ + t.incomplete_buffer_size_,
                      !.incomplete_buffer_size_ = 0]
    IN IF t.connected_
       THEN [cleared EXCEPT
               !.stats_.disconnections = @ + 1,
               !.connected_ = FALSE,
               !.should_stop_ = @ \/ config.exit_on_disconnect]
       ELSE cleared

\* TCPServer::connect succeeds
TConnect ==
    /\ tcp.pc = "connect"
    /\ ~tcp.should_stop_
    /\ tcp.stats_.connection_attempts < MaxConnections
    /\ tcp' = [tcp EXCEPT !.stats_.connection_attempts = @ + 1,
                          !.stats_.successful_connections = @ + 1,
                          !.connected_ = TRUE,
                          !.conn_bytes = 0,
                          !.delivered = <<>>,
                          !.pc = "recv"]
    /\ UNCHANGED <<data_queue, consumer, file, rvars, dvars, pvars, access>>

\* TCPServer::connect fails (::connect returns an error); run() sleeps and
\* tries again
TConnectFail ==
    /\ tcp.pc = "connect"
    /\ ~tcp.should_stop_
    /\ tcp.stats_.connection_attempts < MaxConnections
    /\ tcp' = [tcp EXCEPT !.stats_.connection_attempts = @ + 1,
                          !.stats_.reconnect_errors = @ + 1]
    /\ UNCHANGED <<data_queue, consumer, file, rvars, dvars, pvars, access>>

\* TCPServer::run with the tail placed behind the bytes of the recv
TailBehindReceived(t, n) ==
    Bytes(t.conn_bytes, n)
        \o SubSeq(t.incomplete_buffer_, 1, t.incomplete_buffer_size_)

\* TCPServer::run: the incomplete bytes of the previous recv are copied to
\* the start of the buffer and recv writes its n bytes behind them
ReceiveBuffer(t, n) ==
    SubSeq(t.incomplete_buffer_, 1, t.incomplete_buffer_size_)
        \o Bytes(t.conn_bytes, n)

\* TCPServer::run: recv returns n bytes; the complete words go to the data
\* callback (data_queue.push), the remainder is kept for the next recv
TRecv ==
    /\ tcp.pc = "recv"
    /\ tcp.connected_ /\ ~tcp.should_stop_
    /\ tcp.recvs < MaxRecvs
    /\ \E n \in RecvSizes :
         LET buffer == ReceiveBuffer(tcp, n)
             bytes_to_process == tcp.incomplete_buffer_size_ + n
             complete_words == bytes_to_process \div 8
             incomplete_bytes == bytes_to_process % 8
         IN /\ tcp' = [tcp EXCEPT
                         !.stats_.bytes_received = @ + n,
                         !.conn_bytes = @ + n,
                         !.delivered =
                             @ \o SubSeq(buffer, 1, 8 * complete_words),
                         !.incomplete_buffer_ =
                             IF incomplete_bytes > 0
                             THEN SubSeq(buffer, 8 * complete_words + 1,
                                         8 * complete_words + incomplete_bytes)
                             ELSE @,
                         !.incomplete_buffer_size_ = incomplete_bytes,
                         !.recvs = @ + 1]
            /\ IF complete_words > 0
               THEN \E words \in [1..complete_words -> TWords] :
                       data_queue' = push(data_queue, words)
               ELSE UNCHANGED data_queue
    /\ UNCHANGED <<consumer, file, rvars, dvars, pvars, access>>

\* TCPServer::run: recv returns 0, the peer closed the connection
TRecvEof ==
    /\ tcp.pc = "recv"
    /\ tcp.connected_ /\ ~tcp.should_stop_
    /\ LET warned == [tcp EXCEPT !.stats_.bytes_dropped_incomplete =
                                     @ + tcp.incomplete_buffer_size_]
       IN tcp' = [closeConnection(warned) EXCEPT !.pc = "connect"]
    /\ data_queue' = StopQueue(data_queue)
    /\ UNCHANGED <<consumer, file, rvars, dvars, pvars, access>>

\* TCPServer::run: recv fails with a serious error
TRecvError ==
    /\ tcp.pc = "recv"
    /\ tcp.connected_ /\ ~tcp.should_stop_
    /\ LET counted == [tcp EXCEPT
                         !.stats_.recv_errors = @ + 1,
                         !.stats_.bytes_dropped_incomplete =
                             @ + tcp.incomplete_buffer_size_,
                         !.incomplete_buffer_size_ = 0]
       IN tcp' = [closeConnection(counted) EXCEPT !.pc = "connect"]
    /\ data_queue' = StopQueue(data_queue)
    /\ UNCHANGED <<consumer, file, rvars, dvars, pvars, access>>

\* TCPServer::run returns (should_stop_), and main stops the queue
TRunReturn ==
    /\ tcp.pc = "connect"
    /\ tcp.should_stop_
    /\ tcp' = [tcp EXCEPT !.pc = "returned"]
    /\ data_queue' = StopQueue(data_queue)
    /\ UNCHANGED <<consumer, file, rvars, dvars, pvars, access>>

\* processing thread: pop a buffer and parse it
TPopBuffer ==
    /\ consumer.pc = "pop"
    /\ data_queue.queue_ # <<>>
    /\ LET buffer == Head(data_queue.queue_)
       IN /\ data_queue' = [data_queue EXCEPT !.queue_ = Tail(@)]
          /\ consumer' = [consumer EXCEPT
                            !.total_bytes_received = @ + 8 * Len(buffer),
                            !.total_packets_received = @ + Len(buffer),
                            !.drained = IF data_queue.stop_ THEN @ + 1 ELSE @]
          /\ \E ctx \in {process_raw_data(CurrentContext, config, buffer)} :
                ContextBecomes(ctx)
          /\ parser' = [in_call |-> FALSE,
                        words |-> parser.words + Len(buffer),
                        handed |-> parser.handed \o buffer]
    /\ UNCHANGED <<tcp, file, worker_stats, stop_, worker_task, main, history,
                   config, access, fcall, ring>>

\* processing thread: RawDataQueue::pop returns false: the queue is empty and
\* the wait timed out after 100 ms, or the queue was stopped
TPopFails ==
    /\ consumer.pc = "pop"
    /\ data_queue.queue_ = <<>>
    /\ consumer' = [consumer EXCEPT !.pc = "check"]
    /\ UNCHANGED <<tcp, data_queue, file, rvars, dvars, pvars, access>>

\* a processing thread that would leave its loop as soon as the queue is
\* stopped
ConsumerLeavesOnStop ==
    /\ consumer.pc = "check"
    /\ consumer' = [consumer EXCEPT
                      !.pc = IF data_queue.stop_ THEN "exited" ELSE "pop"]
    /\ UNCHANGED <<tcp, data_queue, file, rvars, dvars, pvars, access>>

\* processing thread after a failed pop: it leaves its loop when the queue
\* is stopped and empty, and calls pop again otherwise
TConsumerExit ==
    /\ consumer.pc = "check"
    /\ consumer' = [consumer EXCEPT
                      !.pc = IF data_queue.stop_ /\ data_queue.queue_ = <<>>
                             THEN "exited"
                             ELSE "pop"]
    /\ UNCHANGED <<tcp, data_queue, file, rvars, dvars, pvars, access>>

\* file mode: one pass of the read loop.  The read returns n bytes; a
\* leftover is completed first and parsed as one word, then the aligned part
\* of the rest is parsed, and what remains becomes the leftover
FRead ==
    /\ file.pc = "read"
    /\ file.reads < MaxReads
    /\ \E n \in {3, 8, 13} :
         LET data == Bytes(consumer.total_bytes_received, n)
             to_copy == IF file.leftover = <<>> THEN 0
                        ELSE IF 8 - Len(file.leftover) < n
                        THEN 8 - Len(file.leftover) ELSE n
             filled == file.leftover \o SubSeq(data, 1, to_copy)
             first == IF Len(filled) = 8 THEN 1 ELSE 0
             remaining == n - to_copy
             words == remaining \div 8
             rest == SubSeq(data, to_copy + 8 * words + 1, n)
         IN /\ file' = [file EXCEPT
                          !.leftover = IF rest # <<>> THEN rest
                                       ELSE IF first = 1 THEN <<>>
                                       ELSE filled,
                          !.delivered =
                              @ \o (IF first = 1 THEN filled ELSE <<>>)
                                \o SubSeq(data, to_copy + 1,
                                          to_copy + 8 * words),
                          !.reads = @ + 1]
            /\ consumer' = [consumer EXCEPT
                              !.total_bytes_received = @ + n,
                              !.total_packets_received = @ + first + words]
            /\ \E w1 \in [1..first -> TWords], w2 \in [1..words -> TWords] :
                  /\ \E ctx \in {IF w2 = <<>> THEN c1
                                   ELSE process_raw_data(c1, config, w2) :
                                   c1 \in {IF w1 = <<>> THEN CurrentContext
                                           ELSE process_raw_data(
                                                    CurrentContext, config,
                                                    w1)}} :
                        ContextBecomes(ctx)
                  /\ parser' = [in_call |-> FALSE,
                                words |-> parser.words + first + words,
                                handed |-> parser.handed \o w1 \o w2]
    /\ UNCHANGED <<tcp, data_queue, worker_stats, stop_, worker_task, main,
                   history, config, access, fcall, ring>>

\* file mode: the read returns nothing more; a leftover that does not make
\* a word is counted and ignored
FEof ==
    /\ file.pc = "read"
    /\ file' = [file EXCEPT
                  !.bytes_dropped_incomplete = @ + Len(file.leftover),
                  !.pc = "done"]
    /\ UNCHANGED <<tcp, data_queue, consumer, rvars, dvars, pvars, access>>

TInit ==
    /\ \E x \in BOOLEAN : ParserInit(Config(FALSE, FALSE, TRUE, x))
    /\ NoDispatcher(recent_hit_count)
    /\ ReorderInit(reorder_window_size)
    /\ \/ \E max_buffers \in QueueSizes : TcpInit(max_buffers, FALSE)
       \/ TcpInit(queue_size, TRUE)

TNext ==
    \/ TConnect
    \/ TConnectFail
    \/ TRecv
    \/ TRecvEof
    \/ TRecvError
    \/ TRunReturn
    \/ TPopBuffer
    \/ TPopFails
    \/ TConsumerExit
    \/ FRead
    \/ FEof

TSpec == TInit /\ [][TNext]_vars

\* RawDataQueue::pop takes the front buffer: within TNext this is the step
\* TPopBuffer, the only one that leaves the tail of the queue
BufferTaken ==
    /\ consumer.pc = "pop"
    /\ data_queue.queue_ # <<>>
    /\ data_queue' = [data_queue EXCEPT !.queue_ = Tail(@)]

\* the processing thread is a running thread: a pop that finds a buffer
\* takes it and the buffer is parsed, a pop on an empty queue returns (its
\* wait is bounded by the 100 ms timeout), and the test after a failed pop
\* is made; the network thread is a running thread: run() returns once its
\* loop condition fails
TFairSpec ==
    /\ TSpec
    /\ WF_data_queue(BufferTaken)
    /\ WF_vars(TPopFails)
    /\ WF_vars(TConsumerExit)
    /\ WF_vars(TRunReturn)
(***************************************************************************)
(* The aggregator under HitProcessor::mutex_: workers whose tasks fall     *)
(* through to process_packet, flushAll merging the partial statistics,     *)
(* and a thread that calls getStatistics.  Every call on the HitProcessor  *)
(* holds mutex_ from its first statement to its last; a call of more than  *)
(* one statement takes two steps, so that the state between its            *)
(* statements is a state of the model.                                     *)
(***************************************************************************)
MaxSnapshots == 2     \* getStatistics calls made by the reading thread

\* the words of the tasks: a pixel word and a TDC word that decode, a TDC
\* word that does not, a SPIDR packet id
SWords == {PixelWordA, Tdc1Word, TdcBadWord, SpidrPacketWord(0)}

\* the calls process_packet makes on the aggregator, accounting enabled,
\* for a SPIDR packet id and for a TDC word that fails to decode
FallbackCalls(word) ==
    IF FullType(word) = SPIDR_PACKET_ID
    THEN <<[method |-> "addPacketBytes",
            category |-> "SPIDR packet ID (0x50)"]>>
    ELSE <<[method |-> "incrementPacketType",
            packet_type |-> PacketType(word)],
           [method |-> "addPacketBytes", category |-> "TDC data (0x06)"],
           [method |-> "incrementDecodeError"],
           [method |-> "incrementFractionalError"]>>

\* one call on the aggregator, from lock to unlock
Call(p, call) ==
    CASE call.method = "incrementPacketType" ->
           incrementPacketType(p, call.packet_type)
      [] call.method = "addPacketBytes" -> addPacketBytes(p, call.category, 8)
      [] call.method = "incrementDecodeError" -> incrementDecodeError(p)
      [] call.method = "incrementFractionalError" ->
           incrementFractionalError(p)

\* addPacketBytes after stats_.packet_byte_totals[category] += bytes and
\* before stats_.total_bytes_accounted += bytes
BytesHalfAdded(p, call) ==
    [p EXCEPT !.packet_byte_totals = MapAdd(@, call.category, 8)]

\* mergeInto after processor.stats_.total_hits += hits and before the
\* statements that follow it
MergeBegun(s, p) == [p EXCEPT !.total_hits = @ + s.hits]

\* PartialStats::mergeInto returns before it locks
NothingToMerge(s) ==
    s.hits = 0 /\ s.tdc1 = 0 /\ s.tdc2 = 0 /\ s.recent_hits = <<>>

\* the end of a call: the lock_guard releases mutex_
Released(a, p) ==
    [a EXCEPT !.owner = "none", !.committed = @ \cup {p}]

\* workerLoop has popped a task
SWorkerTake(w) ==
    /\ worker_pc[w] = "lock"
    /\ history.submitted < MaxTasks
    /\ \E word \in SWords :
         worker_task' = [worker_task EXCEPT
                           ![w] = DecodeTask(word, w, NoChunkMetadata)]
    /\ worker_pc' = [worker_pc EXCEPT ![w] = "decode"]
    /\ history' = [history EXCEPT !.submitted = @ + 1]
    /\ UNCHANGED <<processor, worker_queue, worker_stats, pending_tasks_,
                   stop_, main, rvars, pvars, tvars, access>>

\* processDecoded goes to process_packet for these tasks
FallsThrough(task) ==
    \/ FullType(task.word) = SPIDR_PACKET_ID
    \/ PacketType(task.word) = TDC_DATA /\ ~decode_tdc_data(task.word).ok

\* processDecoded: a decoded pixel or TDC word is counted in the worker's
\* partial statistics under data.stats_mutex; any other task enters
\* process_packet
SWorkerDecode(w) ==
    /\ worker_pc[w] = "decode"
    /\ IF FallsThrough(worker_task[w])
       THEN /\ access' = [access EXCEPT
                            !.calls[w] = FallbackCalls(worker_task[w].word)]
            /\ worker_pc' = [worker_pc EXCEPT ![w] = "process_packet"]
            /\ UNCHANGED <<worker_stats, worker_task>>
       ELSE /\ \E o \in processDecoded(worker_stats, processor, w,
                                       worker_task[w]) :
                 worker_stats' = o.stats
            /\ worker_pc' = [worker_pc EXCEPT ![w] = "lock"]
            /\ worker_task' = [worker_task EXCEPT ![w] = NoTask]
            /\ UNCHANGED access
    /\ UNCHANGED <<processor, worker_queue, pending_tasks_, stop_, main,
                   history, rvars, pvars, tvars>>

\* process_packet returns after its last call
AfterCall(pcs, w, rest) ==
    IF rest = <<>> THEN [pcs EXCEPT ![w] = "lock"] ELSE pcs

\* process_packet: the next call on the aggregator locks mutex_; a call of
\* one statement runs and unlocks, addPacketBytes runs its first statement
SWorkerCall(w) ==
    /\ worker_pc[w] = "process_packet"
    /\ access.owner = "none"
    /\ LET call == Head(access.calls[w])
           rest == Tail(access.calls[w])
       IN IF call.method = "addPacketBytes"
          THEN /\ processor' = BytesHalfAdded(processor, call)
               /\ access' = [access EXCEPT !.owner = "worker",
                                           !.entered = processor]
               /\ worker_pc' = [worker_pc EXCEPT ![w] = "in_call"]
               /\ UNCHANGED worker_task
          ELSE /\ processor' = Call(processor, call)
               /\ access' = [Released(access, Call(processor, call))
                               EXCEPT !.calls[w] = rest]
               /\ worker_pc' = AfterCall(worker_pc, w, rest)
               /\ worker_task' = IF rest = <<>>
                                 THEN [worker_task EXCEPT ![w] = NoTask]
                                 ELSE worker_task
    /\ UNCHANGED <<worker_queue, worker_stats, pending_tasks_, stop_, main,
                   history, rvars, pvars, tvars>>

\* addPacketBytes: the second statement, and the unlock
SWorkerCallEnd(w) ==
    /\ worker_pc[w] = "in_call"
    /\ LET call == Head(access.calls[w])
           rest == Tail(access.calls[w])
           done == [processor EXCEPT !.total_bytes_accounted = @ + 8]
       IN /\ processor' = done
          /\ access' = [Released(access, done) EXCEPT !.calls[w] = rest]
          /\ worker_pc' = AfterCall([worker_pc EXCEPT ![w] = "process_packet"],
                                    w, rest)
          /\ worker_task' = IF rest = <<>>
                            THEN [worker_task EXCEPT ![w] = NoTask]
                            ELSE worker_task
    /\ UNCHANGED <<worker_queue, worker_stats, pending_tasks_, stop_, main,
                   history, rvars, pvars, tvars>>

\* flushAll after flushWorker on worker main.index
NextFlush(m) ==
    IF m.index + 1 < NumWorkers
    THEN [m EXCEPT !.pc = "flush_copy", !.index = @ + 1,
                   !.local = ResetPartialStats]
    ELSE [m EXCEPT !.pc = "run", !.index = 0, !.local = ResetPartialStats]

\* flushWorker: local.mergeInto(processor_) returns at once on an empty
\* copy, else locks processor.mutex_ and runs its first statement
SMergeBegin ==
    /\ main.pc = "flush_merge"
    /\ IF NothingToMerge(main.local)
       THEN /\ main' = NextFlush(main)
            /\ UNCHANGED <<processor, access>>
       ELSE /\ access.owner = "none"
            /\ processor' = MergeBegun(main.local, processor)
            /\ access' = [access EXCEPT !.owner = "main",
                                        !.entered = processor]
            /\ main' = [main EXCEPT !.pc = "merging"]
    /\ UNCHANGED <<worker_queue, worker_stats, pending_tasks_, stop_,
                   worker_pc, worker_task, history, rvars, pvars, tvars>>

\* mergeInto: the statements after the first, and the unlock
SMergeEnd ==
    /\ main.pc = "merging"
    /\ processor' = mergeInto(main.local, access.entered)
    /\ access' = Released(access, mergeInto(main.local, access.entered))
    /\ main' = NextFlush(main)
    /\ UNCHANGED <<worker_queue, worker_stats, pending_tasks_, stop_,
                   worker_pc, worker_task, history, rvars, pvars, tvars>>

\* getStatistics entered without std::lock_guard
getStatisticsUnlocked ==
    access' = [access EXCEPT !.reader = "copy"]

\* HitProcessor::getStatistics: std::lock_guard<std::recursive_mutex>
getStatisticsLock ==
    /\ access.owner = "none"
    /\ access' = [access EXCEPT !.owner = "reader", !.reader = "copy"]

\* a thread calls getStatistics
SGetStatistics ==
    /\ access.reader = "idle"
    /\ access.taken < MaxSnapshots
    /\ getStatisticsLock
    /\ UNCHANGED <<dvars, rvars, pvars, tvars>>

\* getStatistics: return stats_ (a copy), and the unlock
SReturnCopy ==
    /\ access.reader = "copy"
    /\ access' = [access EXCEPT
                    !.snapshot = processor, !.taken = @ + 1,
                    !.reader = "idle",
                    !.owner = IF @ = "reader" THEN "none" ELSE @]
    /\ UNCHANGED <<dvars, rvars, pvars, tvars>>

SInit ==
    /\ ReorderInit(0)
    /\ DispatcherInit(recent_hit_count)
    /\ ParserInit(Config(TRUE, FALSE, TRUE, FALSE))
    /\ TcpInit(queue_size, FALSE)

SNext ==
    \/ \E w \in Workers :
         SWorkerTake(w) \/ SWorkerDecode(w) \/ SWorkerCall(w)
           \/ SWorkerCallEnd(w)
    \/ DFlushAll
    \/ DFlushCopy
    \/ SMergeBegin
    \/ SMergeEnd
    \/ SGetStatistics
    \/ SReturnCopy

SSpec == SInit /\ [][SNext]_vars
(***************************************************************************)
(* The recent-hit ring: pixel words decoded inline (process_packet ->      *)
(* addHit) or by the workers (processDecoded into the partial statistics,  *)
(* flushAll -> mergeInto), with a small --recent-hit-count.                *)
(* history.hits logs the decoded hits in the order of their decoding.      *)
(***************************************************************************)

\* the pixel words: a standard and a count_fb word, which decode to
\* different hits
HWords == {PixelWordA, PixelWordB}

\* the hit decode_pixel_data makes of a word
HitOf(word, chip_index) == decode_pixel_data(word, chip_index).value

\* single-threaded: process_packet decodes the word and calls addHit
HInlineHit ==
    /\ ~config.use_dispatcher
    /\ Len(history.hits) < MaxHits
    /\ \E word \in HWords :
         /\ processor' = process_packet(processor, word, 0, NoChunkMetadata,
                                        config.enable_accounting)
         /\ history' = [history EXCEPT !.hits = Append(@, HitOf(word, 0))]
    /\ UNCHANGED <<worker_queue, worker_stats, pending_tasks_, stop_,
                   worker_pc, worker_task, main, rvars, pvars, tvars, access>>

\* worker w (= chip_index % worker count) runs processDecoded on a pixel
\* task
HWorkerHit(w) ==
    /\ config.use_dispatcher
    /\ Len(history.hits) < MaxHits
    /\ \E word \in HWords :
         /\ \E o \in processDecoded(worker_stats, processor, w,
                                    DecodeTask(word, w, NoChunkMetadata)) :
              worker_stats' = o.stats /\ processor' = o.processor
         /\ history' = [history EXCEPT !.hits = Append(@, HitOf(word, w))]
    /\ UNCHANGED <<worker_queue, pending_tasks_, stop_, worker_pc,
                   worker_task, main, rvars, pvars, tvars, access>>

\* periodic statistics: dispatcher->flushAll()
HFlushAll == config.use_dispatcher /\ DFlushAll

HInit ==
    /\ \E capacity \in 0..MaxCapacity, d \in BOOLEAN :
         /\ ParserInit(Config(d, FALSE, TRUE, FALSE))
         /\ IF d THEN DispatcherInit(capacity) ELSE NoDispatcher(capacity)
    /\ ReorderInit(0)
    /\ TcpInit(queue_size, FALSE)

HNext ==
    \/ HInlineHit
    \/ \E w \in Workers : HWorkerHit(w)
    \/ HFlushAll
    \/ DFlushCopy
    \/ DFlushMerge

HSpec == HInit /\ [][HNext]_vars
(***************************************************************************)
(* The frame parser on chunks that hold TDC words which fail to decode,    *)
(* with or without the dispatcher.                                         *)
(***************************************************************************)

\* words handed to the parser: a chunk header with size field 16 (chip
\* index 0), a TDC word with fract 13, a TDC word and a pixel word that
\* decode
EWords == {HeaderWord, TdcBadWord, Tdc1Word, PixelWordA}

EInit ==
    /\ \E d \in BOOLEAN :
         /\ ParserInit(Config(d, FALSE, TRUE, FALSE))
         /\ IF d THEN DispatcherInit(recent_hit_count)
                 ELSE NoDispatcher(recent_hit_count)
    /\ ReorderInit(reorder_window_size)
    /\ TcpInit(queue_size, FALSE)

\* the parser and the workers; the client makes no statistics call
ENext ==
    \/ PWord(EWords, MaxErrorWords)
    \/ PEndBuffer
    \/ \E w \in Workers : DWorker(w)

ESpec == EInit /\ [][ENext]_vars
(***************************************************************************)
(* The frame parser on words of every packet class: top bytes 0x50 and     *)
(* 0x71 with the remaining bits clear and set, a SPIDR control word and a  *)
(* word of an unknown 4-bit type, with or without the dispatcher.          *)
(***************************************************************************)

\* 0x5000...0001 and 0x50FF7FFF7FFF7FFF, 0x7100...00 and 0x71FF7FFF7FFF7FFF, 0x5F00...00
\* (SPIDR control, shutter open), 0x7200...00 (4-bit type 7)
KWords == {HeaderWord,
           SpidrPacketWord(1), <<20735, 32767, 32767, 32767>>,
           <<28928, 0, 0, 0>>, <<29183, 32767, 32767, 32767>>,
           <<24320, 0, 0, 0>>, <<29184, 0, 0, 0>>}

KInit ==
    /\ \E d \in BOOLEAN :
         /\ ParserInit(Config(d, FALSE, TRUE, FALSE))
         /\ IF d THEN DispatcherInit(recent_hit_count)
                 ELSE NoDispatcher(recent_hit_count)
    /\ ReorderInit(reorder_window_size)
    /\ TcpInit(queue_size, FALSE)

\* the parser and the workers; the client makes no statistics call
KNext ==
    \/ PWord(KWords, MaxTypeWords)
    \/ PEndBuffer
    \/ \E w \in Workers : DWorker(w)

KSpec == KInit /\ [][KNext]_vars
(***************************************************************************)
(* decode_tdc_data, extend_timestamp and pixaddr_to_xy called on their     *)
(* own, on arguments drawn from small sets (pixaddr_to_xy on every 16-bit  *)
(* pixel address).  The model's unsigned integers are 31 bits wide         *)
(* (UINT64_MAX), so n_bits goes up to 30 and the TDC coarse field up to    *)
(* 2^29 + 1.                                                               *)
(***************************************************************************)

\* the 64-bit TDC word with the given fields: 4-bit type 6, event type in
\* bits 59-56, trigger count in bits 55-44, coarse time in bits 43-9, fine
\* time in bits 8-5, bits 4-0 as given
TdcWord(event_type, trigger_count, coarse, fract, low) ==
    <<TDC_DATA * 4096 + event_type * 256 + trigger_count \div 16,
      (trigger_count % 16) * 4096 + coarse \div (2 ^ 23),
      (coarse \div (2 ^ 7)) % (2 ^ 16),
      (coarse % (2 ^ 7)) * 512 + fract * 32 + low>>

\* the fields of the TDC words decoded
TdcEventTypes == {TDC1_RISE, TDC1_FALL, TDC2_RISE, TDC2_FALL}
TdcCoarseTimes == {0, 1, 128, 2 ^ 23 + 5, 2 ^ 29 + 1}

\* the arguments of extend_timestamp: the timestamps before truncation,
\* the minimum timestamps, the widths
Timestamps == {0, 5, 16, 1000, 2 ^ 30 + 3, UINT64_MAX}
MinimumTimestamps == {0, 7, 1073741568, 2 ^ 30, UINT64_MAX - 5}
Widths == {0, 1, 4, 30}

\* the pixel addresses a pixel word carries: get_bits(data, 59, 44)
PixAddrBits == 16
PixAddrs == 0..(2 ^ PixAddrBits - 1)

\* a caller is about to call decode_tdc_data(word),
\* extend_timestamp(x & mask, minimum_timestamp, n_bits) or
\* pixaddr_to_xy(pixaddr)
FInit ==
    /\ state = NewStreamState
    /\ parser = [in_call |-> FALSE, words |-> 0, handed |-> <<>>]
    /\ config = Config(FALSE, FALSE, TRUE, FALSE)
    /\ ring = NoRingBuffer
    /\ \/ \E event_type \in TdcEventTypes, trigger_count \in {0, 4095},
             coarse \in TdcCoarseTimes, fract \in 0..15, low \in {0, 31} :
            fcall = [function |-> "decode_tdc_data", returned |-> FALSE,
                     coarse |-> coarse, fract |-> fract,
                     word |-> TdcWord(event_type, trigger_count, coarse,
                                      fract, low)]
       \/ \E x \in Timestamps, minimum_timestamp \in MinimumTimestamps,
             n_bits \in Widths :
            fcall = [function |-> "extend_timestamp", returned |-> FALSE,
                     x |-> x, timestamp |-> x % (2 ^ n_bits),
                     minimum_timestamp |-> minimum_timestamp,
                     n_bits |-> n_bits]
       \/ \E pixaddr \in PixAddrs :
            fcall = [function |-> "pixaddr_to_xy", returned |-> FALSE,
                     pixaddr |-> pixaddr]
    /\ NoDispatcher(recent_hit_count)
    /\ ReorderInit(reorder_window_size)
    /\ TcpInit(queue_size, FALSE)

\* decode_tdc_data(word) returns or throws
FDecodeTdc ==
    /\ fcall.function = "decode_tdc_data"
    /\ ~fcall.returned
    /\ fcall' = [function |-> "decode_tdc_data", returned |-> TRUE,
                 coarse |-> fcall.coarse, fract |-> fcall.fract,
                 word |-> fcall.word,
                 result |-> decode_tdc_data(fcall.word)]
    /\ UNCHANGED <<state, parser, config, ring, rvars, dvars, tvars, svars>>

\* extend_timestamp(timestamp, minimum_timestamp, n_bits) returns
FExtendTimestamp ==
    /\ fcall.function = "extend_timestamp"
    /\ ~fcall.returned
    /\ fcall' = [function |-> "extend_timestamp", returned |-> TRUE,
                 x |-> fcall.x, timestamp |-> fcall.timestamp,
                 minimum_timestamp |-> fcall.minimum_timestamp,
                 n_bits |-> fcall.n_bits,
                 result |-> extend_timestamp(fcall.timestamp,
                                             fcall.minimum_timestamp,
                                             fcall.n_bits)]
    /\ UNCHANGED <<state, parser, config, ring, rvars, dvars, tvars, svars>>

\* pixaddr_to_xy(pixaddr) returns
FPixaddrToXy ==
    /\ fcall.function = "pixaddr_to_xy"
    /\ ~fcall.returned
    /\ fcall' = [function |-> "pixaddr_to_xy", returned |-> TRUE,
                 pixaddr |-> fcall.pixaddr,
                 result |-> pixaddr_to_xy(fcall.pixaddr)]
    /\ UNCHANGED <<state, parser, config, ring, rvars, dvars, tvars, svars>>

FNext == FDecodeTdc \/ FExtendTimestamp \/ FPixaddrToXy

FSpec == FInit /\ [][FNext]_vars
(***************************************************************************)
(* The reorder buffer as the frame parser drives it (process_raw_data):    *)
(* a chunk header resets it for the new chunk, a SPIDR packet-id word of   *)
(* the current chunk is submitted to it.                                   *)
(***************************************************************************)

RInit ==
    /\ \E w \in 0..MaxWindow : ReorderInit(w)
    /\ DispatcherInit(recent_hit_count)
    /\ ParserInit(Config(FALSE, TRUE, TRUE, FALSE))
    /\ TcpInit(queue_size, FALSE)

\* process_raw_data on a chunk header, with a reorder buffer
RChunkHeader ==
    /\ local_chunk_count < MaxChunks
    /\ local_chunk_count' = local_chunk_count + 1
    /\ reorder_buffer' = ResetForNewChunk(reorder_buffer, local_chunk_count + 1)
    /\ UNCHANGED <<released, submitted, dvars, pvars, tvars, access>>

\* process_raw_data on a SPIDR packet-id word inside a chunk
RSpidrPacket ==
    /\ local_chunk_count >= 1
    /\ reorder_buffer.stats_.total_packets < MaxPackets
    /\ \E packet_id \in 0..MaxPacketId :
         LET rs == ProcessPacket(WithOut(reorder_buffer, released),
                                 packet_id, local_chunk_count)
         IN /\ reorder_buffer' = rs.rb
            /\ released' = rs.out
            /\ submitted' = Append(submitted, [packet_id |-> packet_id,
                                               chunk_id |-> local_chunk_count])
    /\ UNCHANGED <<local_chunk_count, dvars, pvars, tvars, access>>

RNext == RChunkHeader \/ RSpidrPacket

RSpec == RInit /\ [][RNext]_vars

(***************************************************************************)
(* The frame parser on chunks of TDC words, with or without the            *)
(* dispatcher; with it, the parsing thread calls waitUntilIdle after a     *)
(* process_raw_data call (the statistics paths of main).                   *)
(***************************************************************************)

MaxTdcWords == 3      \* words handed to the parser, TDC words of every kind

\* 0x6000 ... 0020: a TDC word of event type 0, which is none of TDC1_RISE,
\* TDC1_FALL, TDC2_RISE and TDC2_FALL, with fract 1
TdcOtherWord == <<24576, 0, 0, 32>>

\* words handed to the parser: a chunk header with size field 16 (chip
\* index 0) and TDC words that decode, of kind TDC1, TDC2 and neither
IWords == {HeaderWord, Tdc1Word, Tdc2Word, TdcOtherWord}

IInit ==
    /\ \E d \in BOOLEAN :
         /\ ParserInit(Config(d, FALSE, TRUE, FALSE))
         /\ IF d THEN DispatcherInit(recent_hit_count)
                 ELSE NoDispatcher(recent_hit_count)
    /\ ReorderInit(reorder_window_size)
    /\ TcpInit(queue_size, FALSE)

\* the parser, the workers and the waitUntilIdle call of the parsing thread
INext ==
    \/ PWord(IWords, MaxTdcWords)
    \/ PEndBuffer
    \/ PWaitUntilIdle
    \/ DIdleCheck
    \/ DIdleBlock
    \/ DFlushCopy
    \/ DFlushMerge
    \/ \E w \in Workers : DWorker(w)

ISpec == IInit /\ [][INext]_vars

(***************************************************************************)
(* RawDataQueue on its own, for every capacity from 0: the data callback   *)
(* of the network thread pushes buffers, the processing thread pops and    *)
(* parses them, and the queue may be stopped.                              *)
(*                                                                         *)
(* With max_buffers_ = 0 the test queue_.size() >= max_buffers_ holds on   *)
(* an empty queue and push calls queue_.pop() on it: undefined behaviour   *)
(* of std::queue.  data_queue.empty_pops counts these calls.  Afterwards   *)
(* the container either still works as if the call had not been made (the  *)
(* emplaced buffer is queued) or has lost track of its elements (its       *)
(* begin has moved past its end, the emplace makes the two meet and the    *)
(* queue reads as empty).                                                  *)
(***************************************************************************)

MaxQueueSize == 2     \* --queue-size values are drawn from 0..MaxQueueSize
MaxPushes == 3        \* buffers handed to RawDataQueue::push

\* words of the buffers pushed (one word each)
QWords == {HeaderWord, PixelWordA}

\* RawDataQueue::push(data, size): the set of possible results
pushOutcomes(q, words) ==
    IF ~q.stop_ /\ Len(q.queue_) >= q.max_buffers_ /\ q.queue_ = <<>>
    THEN {[q EXCEPT !.pushed = Append(@, words),
                    !.queue_ = after,
                    !.dropped_buffers_ = @ + 1,
                    !.empty_pops = @ + 1] : after \in {<<>>, <<words>>}}
    ELSE {push(q, words)}

\* the data callback of server.run: data_queue.push(data, size)
QPush ==
    /\ Len(data_queue.pushed) < MaxPushes
    /\ \E word \in QWords :
         data_queue' \in pushOutcomes(data_queue, <<word>>)
    /\ UNCHANGED <<tcp, consumer, file, rvars, dvars, pvars, access>>

\* data_queue.stop(), from the connection callback or after run() returns
QStop ==
    /\ ~data_queue.stop_
    /\ data_queue' = StopQueue(data_queue)
    /\ UNCHANGED <<tcp, consumer, file, rvars, dvars, pvars, access>>

QInit ==
    /\ ParserInit(Config(FALSE, FALSE, TRUE, FALSE))
    /\ NoDispatcher(recent_hit_count)
    /\ ReorderInit(reorder_window_size)
    /\ \E max_buffers \in 0..MaxQueueSize : TcpInit(max_buffers, FALSE)

QNext ==
    \/ QPush
    \/ QStop
    \/ TPopBuffer
    \/ TPopFails
    \/ TConsumerExit

QSpec == QInit /\ [][QNext]_vars

(***************************************************************************)
(* RingBuffer on its own: constructed with every size from 0, one thread   *)
(* calling write with the next bytes of its stream and one thread calling  *)
(* read, in every interleaving of their loads, copies and stores.          *)
(***************************************************************************)

MaxRingSize == 4      \* the constructor's size_bytes is drawn from 0..MaxRingSize
MaxRingBytes == 6     \* bytes of the writer's stream
MaxCallSize == 3      \* the size argument of write and read

\* the writer thread calls write(data, size)
BWriteLoad ==
    /\ ring.writer.pc = "idle"
    /\ \E size \in 1..MaxCallSize :
         /\ Len(ring.accepted) + size <= MaxRingBytes
         /\ ring' = writeLoad(ring, size)
    /\ UNCHANGED <<state, parser, config, fcall, rvars, dvars, tvars, svars>>

BWriteCopy ==
    /\ ring.writer.pc = "copy"
    /\ ring' = writeCopy(ring)
    /\ UNCHANGED <<state, parser, config, fcall, rvars, dvars, tvars, svars>>

BWriteStore ==
    /\ ring.writer.pc = "store"
    /\ ring' = writeStore(ring)
    /\ UNCHANGED <<state, parser, config, fcall, rvars, dvars, tvars, svars>>

\* the reader thread calls read(data, size)
BReadLoad ==
    /\ ring.reader.pc = "idle"
    /\ \E size \in 1..MaxCallSize : ring' = readLoad(ring, size)
    /\ UNCHANGED <<state, parser, config, fcall, rvars, dvars, tvars, svars>>

BReadCopy ==
    /\ ring.reader.pc = "copy"
    /\ ring' = readCopy(ring)
    /\ UNCHANGED <<state, parser, config, fcall, rvars, dvars, tvars, svars>>

BReadStore ==
    /\ ring.reader.pc = "store"
    /\ ring' = readStore(ring)
    /\ UNCHANGED <<state, parser, config, fcall, rvars, dvars, tvars, svars>>

BInit ==
    /\ state = NewStreamState
    /\ parser = [in_call |-> FALSE, words |-> 0, handed |-> <<>>]
    /\ config = Config(FALSE, FALSE, TRUE, FALSE)
    /\ fcall = NoCall
    /\ \E size_bytes \in 0..MaxRingSize : ring = NewRingBuffer(size_bytes)
    /\ NoDispatcher(recent_hit_count)
    /\ ReorderInit(reorder_window_size)
    /\ TcpInit(queue_size, FALSE)

BNext ==
    \/ BWriteLoad
    \/ BWriteCopy
    \/ BWriteStore
    \/ BReadLoad
    \/ BReadCopy
    \/ BReadStore

BSpec == BInit /\ [][BNext]_vars
(***************************************************************************)
(* Properties of the reorder buffer                                        *)
(***************************************************************************)

\* the packet ids of the log entries of chunk c, in log order
IdsOfChunk(log, c) ==
    LET sel == SelectSeq(log, LAMBDA e : e.chunk_id = c)
    IN [i \in 1..Len(sel) |-> sel[i].packet_id]

\* the packet ids of a log, in log order
IdsOf(log) == [i \in 1..Len(log) |-> log[i].packet_id]

\* the callback invocations made from the in-order paths
MainPath(e) == e.path \in {"fast", "consecutive"}

\* a step that is a processPacket call, and the id it submits
IsSubmit == Len(submitted') = Len(submitted) + 1
SubmittedId == submitted'[Len(submitted')].packet_id

\* the packet is out of order, inside the window, and the buffer is at capacity
OutOfOrderAtCapacity(packet_id) ==
    /\ reorder_buffer.first_packet_seen_
    /\ packet_id # reorder_buffer.next_expected_id_
    /\ packet_id >= reorder_buffer.oldest_allowed_id_
    /\ Cardinality(DOMAIN reorder_buffer.buffer_) >= reorder_buffer.max_buffer_size_

\* C3 (as claimed): once the ids submitted in the current chunk are a
\* permutation of 0..N-1 and max_size >= N, the callback has been invoked for
\* exactly 0, 1, ..., N-1 in that order.
C3_PermutationReleasedInOrder ==
    \A N \in 1..(MaxPacketId + 1) :
        LET ins == IdsOfChunk(submitted, local_chunk_count)
        IN (/\ reorder_buffer.max_buffer_size_ >= N
            /\ Len(ins) = N
            /\ {ins[i] : i \in 1..N} = 0..(N - 1))
           => IdsOfChunk(released, local_chunk_count) = [i \in 1..N |-> i - 1]

\* C8 (as claimed): the step that handles a chunk header passes every packet
\* still buffered to the callback, in ascending id order, before the reset.
C8_BoundaryFlushesBuffer ==
    [][local_chunk_count' # local_chunk_count =>
         IdsOf(released') =
             IdsOf(released) \o SortedIds(DOMAIN reorder_buffer.buffer_)]_vars

\* C9: within one chunk the ids released from the in-order paths (fast path
\* and consecutive release) never decrease, whatever the overflow path
\* releases in between.
C9_MainReleasesMonotonic ==
    \A i, j \in 1..Len(released) :
        (/\ i < j
         /\ released[i].chunk_id = released[j].chunk_id
         /\ MainPath(released[i]) /\ MainPath(released[j]))
        => released[i].packet_id <= released[j].packet_id

\* C9 witness: an overflow release with a larger id sits between two in-order
\* releases of the same chunk.
C9_Witness ==
    \E i, j, k \in 1..Len(released) :
        /\ i < j /\ j < k
        /\ released[i].chunk_id = released[k].chunk_id
        /\ released[j].chunk_id = released[k].chunk_id
        /\ MainPath(released[i]) /\ MainPath(released[k])
        /\ released[j].path = "overflow"
        /\ released[j].packet_id > released[k].packet_id

C11_BufferWithinMaxSize ==
    Cardinality(DOMAIN reorder_buffer.buffer_) <= reorder_buffer.max_buffer_size_

\* C11 witness: a buffer of non-zero capacity is full and a further
\* out-of-order packet has met it (an overflow has been counted).
C11_Witness ==
    /\ reorder_buffer.max_buffer_size_ > 0
    /\ Cardinality(DOMAIN reorder_buffer.buffer_) = reorder_buffer.max_buffer_size_
    /\ reorder_buffer.stats_.buffer_overflows > 0

\* C12 (as claimed): a packet whose id is below
\* max(0, next_expected - max_size) is dropped: the callback is not invoked
\* and packets_dropped_too_old grows by one.
C12_BelowWindowDropped ==
    [][(IsSubmit /\ SubmittedId < Max(0, reorder_buffer.next_expected_id_
                                         - reorder_buffer.max_buffer_size_)) =>
         /\ released' = released
         /\ reorder_buffer'.stats_.packets_dropped_too_old =
                reorder_buffer.stats_.packets_dropped_too_old + 1]_vars

\* the number of entries of a log with the given chunk and packet id
CountOf(log, chunk_id, packet_id) ==
    Len(SelectSeq(log, LAMBDA e : e.chunk_id = chunk_id
                                  /\ e.packet_id = packet_id))

\* C32 (as claimed): once every chunk that had packets submitted has ended
\* (a later chunk header has been parsed), every submitted packet has been
\* passed to the callback exactly once or counted in
\* packets_dropped_too_old: the callbacks and the drops add up to the
\* submissions, and no packet is passed to the callback more often than it
\* was submitted.
C32_EveryPacketAccountedOnce ==
    IdsOfChunk(submitted, local_chunk_count) = <<>> =>
        /\ Len(submitted) =
               Len(released) + reorder_buffer.stats_.packets_dropped_too_old
        /\ \A c \in 1..MaxChunks, id \in 0..MaxPacketId :
               CountOf(released, c, id) <= CountOf(submitted, c, id)
(***************************************************************************)
(* Properties of the dispatcher                                            *)
(***************************************************************************)

\* no task is queued, popped or being decoded, and none is counted pending
Drained ==
    /\ pending_tasks_ = 0
    /\ history.decoded = history.submitted
    /\ \A w \in Workers :
         /\ worker_queue[w] = <<>>
         /\ worker_task[w] = NoTask
         /\ worker_pc[w] \notin {"decode", "complete"}

\* every worker's partial statistics are reset and no flushWorker copy is
\* waiting to be merged: what the workers accumulated is in the aggregator
Merged ==
    /\ \A w \in Workers : worker_stats[w] = ResetPartialStats
    /\ main.local = ResetPartialStats
    /\ processor.total_hits = history.accumulated.hits
    /\ processor.total_tdc1_events = history.accumulated.tdc1
    /\ processor.total_tdc2_events = history.accumulated.tdc2

\* waitUntilIdle() has returned and the client has made no call since
IdleReturned == main.pc = "run" /\ main.op = "waitUntilIdle"

\* stop() has returned
Stopped == main.pc = "stopped"

\* the hit statistics of an aggregator
HitView(p) ==
    [total_hits |-> p.total_hits,
     chip_hit_totals_ |-> p.chip_hit_totals_,
     earliest_hit_time_ticks |-> p.earliest_hit_time_ticks,
     latest_hit_time_ticks |-> p.latest_hit_time_ticks]

\* C1: once the dispatcher is idle and flushed (waitUntilIdle or stop has
\* returned), the aggregator's total hit count, per-chip hit counts and
\* earliest/latest hit ticks equal those obtained by decoding the same
\* words inline with process_packet.
C1_DispatcherMatchesInline ==
    (IdleReturned \/ Stopped) =>
        HitView(processor) = HitView(history.reference)

\* C5: once stop() has set the stop flag and notified every worker's
\* condition variable, no worker is blocked in its wait: a blocked worker
\* is not notified again, so it would never exit and the join would never
\* return.
C5_NoWorkerBlockedAfterStopNotified ==
    main.pc = "stop_join" => \A w \in Workers : worker_pc[w] # "waiting"

\* C6: when stop() has returned, every task submitted before it has been
\* decoded (no queue holds a task, none is pending), and every worker's
\* partial statistics have been merged into the aggregator: no hit or TDC
\* count the workers accumulated is missing from it.
C6_StopDrainsThenMerges == Stopped => (Drained /\ Merged)

\* a stop() that found tasks pending has returned, with hits recorded
C6_Witness ==
    /\ Stopped
    /\ history.stop_backlog > 0
    /\ processor.total_hits > 0

\* C7: waitUntilIdle() does not get past its wait while a submitted task is
\* queued or being decoded, and when it has returned pending_tasks_ is 0 and
\* every worker's partial statistics have been merged into the aggregator.
C7_WaitUntilIdleDrainedAndMerged ==
    /\ (main.op = "waitUntilIdle" /\ main.pc \in {"flush_copy", "flush_merge"})
          => Drained
    /\ IdleReturned => (Drained /\ Merged)

\* waitUntilIdle() had to block on tasks in flight and has returned, with
\* hits recorded
C7_Witness ==
    /\ IdleReturned
    /\ history.waited
    /\ processor.total_hits > 0


\* the tasks worker w holds: queued, or popped and being decoded
HeldBy(w) ==
    {worker_queue[w][i] : i \in 1..Len(worker_queue[w])}
        \cup (IF worker_task[w] = NoTask THEN {} ELSE {worker_task[w]})

\* the words of a submission log
WordsOf(log) == [i \in 1..Len(log) |-> log[i].word]

\* sequence a is a prefix of sequence b
IsPrefix(a, b) == Len(a) <= Len(b) /\ a = SubSeq(b, 1, Len(a))

\* C15: every task is held by worker chip_index mod N only, and for each chip
\* index the words decoded so far are, in order, the first of the words
\* submitted for it: no two tasks of a chip are decoded out of submission
\* order.
C15_SameChipDecodedInSubmissionOrder ==
    /\ \A w \in Workers : \A task \in HeldBy(w) :
           task.chip_index % NumWorkers = w
    /\ \A chip \in DOMAIN history.done :
           /\ chip \in DOMAIN history.sent
           /\ IsPrefix(WordsOf(history.done[chip]),
                       WordsOf(history.sent[chip]))

\* C15 witness: two different tasks of one chip have both been decoded.
C15_Witness ==
    \E chip \in DOMAIN history.done :
        /\ Len(history.done[chip]) = 2
        /\ history.done[chip][1].word # history.done[chip][2].word

\* the tasks in the worker queues
QueuedTasks ==
    UNION {{<<w, i>> : i \in 1..Len(worker_queue[w])} : w \in Workers}

\* the workers that hold a task: popped and not yet counted as complete
BusyWorkers == {w \in Workers : worker_pc[w] \in {"decode", "complete"}}

\* words submitted and not yet completely decoded: the word of a submit in
\* progress, the queued tasks and the tasks the workers hold
Outstanding ==
    (IF main.pc = "submit_push" THEN 1 ELSE 0)
        + Cardinality(QueuedTasks) + Cardinality(BusyWorkers)

\* C24: pending_tasks_ is the number of words submitted to the dispatcher and
\* not yet completely decoded; it goes up by one per submitted word and down
\* by one per completed task, never below 0, and is 0 exactly when nothing
\* is outstanding.
C24_PendingCountsOutstandingTasks ==
    /\ [](pending_tasks_ = Outstanding)
    /\ [](pending_tasks_ >= 0)
    /\ [][/\ history'.submitted = history.submitted + 1 =>
                pending_tasks_' = pending_tasks_ + 1
          /\ (\E w \in Workers : worker_pc[w] = "complete"
                                    /\ worker_pc'[w] # "complete") =>
                pending_tasks_' = pending_tasks_ - 1
          /\ pending_tasks_' # pending_tasks_ =>
                \/ history'.submitted = history.submitted + 1
                \/ \E w \in Workers : worker_pc[w] = "complete"
                                         /\ worker_pc'[w] # "complete"]_vars

\* two words are pending: one worker has decoded its task and is about to
\* count it, the other word is being submitted, queued or held
C24_Witness ==
    /\ pending_tasks_ = 2
    /\ \E w \in Workers : worker_pc[w] = "complete"
    /\ history.submitted = 2

\* processDecoded indexes the per-chip arrays of PartialStats with the
\* task's chip index: a pixel word, or a TDC word that decodes to a TDC1 or
\* TDC2 event
IndexesChipArrays(task) ==
    /\ FullType(task.word) \notin
         {SPIDR_PACKET_ID, TPX3_CONTROL, EXTRA_TIMESTAMP,
          EXTRA_TIMESTAMP_MPX3, GLOBAL_TIME_LOW, GLOBAL_TIME_HIGH}
    /\ \/ PacketType(task.word) \in {PIXEL_COUNT_FB, PIXEL_STANDARD}
       \/ /\ PacketType(task.word) = TDC_DATA
          /\ decode_tdc_data(task.word).ok
          /\ decode_tdc_data(task.word).value.type \in
                 {TDC1_RISE, TDC1_FALL, TDC2_RISE, TDC2_FALL}

\* C33 (as claimed): whenever a worker's processDecoded indexes the per-chip
\* arrays, the index is one of the four positions 0..3.
C33_ChipIndexWithinArrays ==
    [][\A w \in Workers :
         (/\ worker_pc[w] = "decode"
          /\ worker_pc'[w] = "complete"
          /\ IndexesChipArrays(worker_task[w]))
         => worker_task[w].chip_index \in ChipSlots]_vars

\* the words logged for a chip index
WordsFor(log, chip_index) ==
    IF chip_index \in DOMAIN log THEN WordsOf(log[chip_index]) ELSE <<>>

\* waitUntilIdle() has been called and has not returned
InWaitUntilIdle == main.op = "waitUntilIdle" /\ main.pc # "run"

\* C34: a task is only ever queued at, and decoded by, the worker of its
\* shard (chip index modulo the number of workers); the words decoded for
\* a chip index are at all times a prefix of the words submitted for it, so
\* that none is decoded twice; every submitted word is eventually decoded
\* unless the dispatcher is stopped; and a waitUntilIdle() in progress
\* eventually returns unless the dispatcher is stopped.
C34_SubmittedEventuallyDecodedOnce ==
    /\ [](\A w \in Workers : \A task \in HeldBy(w) :
              task.chip_index % NumWorkers = w)
    /\ [](\A chip_index \in DChips :
              IsPrefix(WordsFor(history.done, chip_index),
                       WordsFor(history.sent, chip_index)))
    /\ \A n \in 1..MaxTasks :
          (history.submitted >= n) ~> (stop_ \/ history.decoded >= n)
    /\ InWaitUntilIdle ~> (stop_ \/ ~InWaitUntilIdle)

\* both shards have decoded a task each from its own queue, the second one
\* after the client had blocked in waitUntilIdle(), which has returned; the
\* dispatcher was never stopped
C34_Witness ==
    /\ ~stop_
    /\ history.decoded = MaxTasks
    /\ \A chip_index \in DChips :
          /\ chip_index \in DOMAIN history.done
          /\ history.done[chip_index] # <<>>
    /\ history.waited
    /\ main.op = "waitUntilIdle"
    /\ main.pc = "run"
(***************************************************************************)
(* Properties of the frame parser                                          *)
(***************************************************************************)

\* process_raw_data has returned and no decode worker has work: nothing is
\* queued, popped or pending, and no flush is under way
ParserAtRest ==
    /\ ~parser.in_call
    /\ main.pc = "run"
    /\ pending_tasks_ = 0
    /\ \A w \in Workers :
         /\ worker_queue[w] = <<>>
         /\ worker_task[w] = NoTask
         /\ worker_pc[w] \notin {"decode", "complete", "notify_idle"}

\* C2: with byte accounting enabled, after any sequence of complete 8-byte
\* words has been parsed and the decode workers are idle,
\* total_bytes_accounted equals 8 times the number of words handed to the
\* parser.
C2_AccountedBytesEqualWords ==
    (config.enable_accounting /\ ParserAtRest) =>
        processor.total_bytes_accounted = 8 * parser.words


\* bytes an aggregator has accounted under a category
BytesIn(p, category) ==
    IF category \in DOMAIN p.packet_byte_totals
    THEN p.packet_byte_totals[category] ELSE 0

BytesOf(category) == BytesIn(processor, category)

\* the words of a log that lie outside every chunk when a header declaring
\* chunk_size_bytes is followed by chunk_size_bytes/8 - 1 data words:
\* scan from position i with `left` data words still owed to the open chunk
RECURSIVE OutsideWhenHeaderCounted(_, _, _)
OutsideWhenHeaderCounted(log, i, left) ==
    IF i > Len(log) THEN 0
    ELSE IF IsChunkHeader(log[i])
    THEN OutsideWhenHeaderCounted(log, i + 1,
                                  get_bits(log[i], 63, 48) \div 8 - 1)
    ELSE IF left > 0 THEN OutsideWhenHeaderCounted(log, i + 1, left - 1)
    ELSE 1 + OutsideWhenHeaderCounted(log, i + 1, 0)

\* C13 (as claimed): a header declaring chunk_size_bytes is followed by
\* exactly chunk_size_bytes/8 - 1 data words; every other non-header word is
\* accounted as outside chunk (8 bytes each under "Unassigned (outside
\* chunk)") and no data word of a chunk is.
C13_ChunkHoldsSizeMinusOneWords ==
    config.enable_accounting =>
        BytesOf("Unassigned (outside chunk)") =
            8 * OutsideWhenHeaderCounted(parser.handed, 1, 0)

\* a step of the parser loop, and the word it handles
IsParseStep == Len(parser.handed') = Len(parser.handed) + 1
ParsedWord == parser.handed'[Len(parser.handed')]

\* the word carries the chunk magic with a size field that is zero or not a
\* multiple of 8
MagicWithBadSize(word) ==
    /\ IsChunkHeader(word)
    /\ \/ get_bits(word, 63, 48) = 0
       \/ get_bits(word, 63, 48) % 8 # 0

\* C14 (as claimed): a word with the chunk magic whose size field is zero or
\* not a multiple of 8 is not taken as a chunk header: no chunk starts, the
\* chunk count, the reorder buffer and the chunk metadata stay as they are,
\* and the word is accounted as outside chunk.
C14_BadSizeHeaderNotRecognised ==
    [][(IsParseStep /\ MagicWithBadSize(ParsedWord)) =>
         /\ local_chunk_count' = local_chunk_count
         /\ state'.in_chunk = state.in_chunk
         /\ state'.chunk_words_remaining = state.chunk_words_remaining
         /\ state'.chunk_meta = state.chunk_meta
         /\ state'.extra_timestamps = state.extra_timestamps
         /\ reorder_buffer' = reorder_buffer
         /\ config.enable_accounting =>
                BytesIn(processor', "Unassigned (outside chunk)") =
                    BytesOf("Unassigned (outside chunk)") + 8]_vars

\* C37 (as claimed): with byte accounting disabled, parsing leaves
\* total_bytes_accounted, packet_byte_totals, packet_type_counts and
\* total_unknown_packets as they were at the start, with or without the
\* dispatcher.
C37_NoAccountingWhenDisabled ==
    ~config.enable_accounting =>
        /\ processor.total_bytes_accounted = 0
        /\ processor.packet_byte_totals = EmptyMap
        /\ processor.packet_type_counts =
               NewHitProcessor(recent_hit_count).packet_type_counts
        /\ processor.total_unknown_packets = 0
(***************************************************************************)
(* Properties of TCP mode                                                  *)
(***************************************************************************)

\* C4: in TCP mode without --exit-on-disconnect, after the connection was
\* lost and the client has reconnected, the bytes received on the new
\* connection are delivered to the parser: no complete word the network
\* thread received is refused by the queue that feeds the parser.
C4_ReconnectedDataReachesParser ==
    (~config.exit_on_disconnect /\ tcp.stats_.successful_connections > 1) =>
        data_queue.refused = <<>>


\* a step in which the network thread hands one buffer to RawDataQueue::push
PushStep == Len(data_queue'.pushed) = Len(data_queue.pushed) + 1

\* the queue holds max_buffers_ buffers or more
QueueFull == Len(data_queue.queue_) >= data_queue.max_buffers_

\* s is the end of t
IsSuffix(s, t) ==
    /\ Len(s) <= Len(t)
    /\ s = SubSeq(t, Len(t) - Len(s) + 1, Len(t))

\* C19: a push on a full queue removes the oldest queued buffer, adds one to
\* the dropped-buffer counter and enqueues the new buffer, so that the queue
\* always holds the most recently pushed buffers in arrival order.
C19_PushOnFullQueueDropsOldest ==
    /\ [][(PushStep /\ QueueFull) =>
             /\ data_queue'.queue_ =
                    Append(Tail(data_queue.queue_),
                           data_queue'.pushed[Len(data_queue'.pushed)])
             /\ data_queue'.dropped_buffers_ =
                    data_queue.dropped_buffers_ + 1]_vars
    /\ [](IsSuffix(data_queue.queue_, data_queue.pushed))

\* the words of a sequence of buffers, in order
RECURSIVE Flat(_)
Flat(buffers) ==
    IF buffers = <<>> THEN <<>> ELSE Head(buffers) \o Flat(Tail(buffers))

\* C20: once the queue is stopped, every buffer that is still queued is
\* popped and parsed (a buffer leaves the queue only into the parser), the
\* processing thread then leaves its loop, it never leaves it while a buffer
\* is queued, and it does not wait forever, whether or not the network
\* thread has already returned.
C20_StoppedQueueDrainedThenExit ==
    /\ [][data_queue.stop_ =>
             parser'.handed \o Flat(data_queue'.queue_) =
                 parser.handed \o Flat(data_queue.queue_)]_vars
    /\ [](consumer.pc = "exited" => data_queue.queue_ = <<>>)
    /\ (data_queue.stop_ ~> consumer.pc = "exited")

\* the network thread has returned and the processing thread has left its
\* loop after it parsed buffers that were queued when the queue was stopped
C20_Witness ==
    /\ consumer.pc = "exited"
    /\ consumer.drained > 0
    /\ tcp.pc = "returned"

\* C21: each time the connection ends while k bytes (1 <= k <= 7) are held in
\* the incomplete-word tail, bytes_dropped_incomplete grows by exactly k and
\* the tail is emptied.
C21_TailCountedOnceOnDisconnect ==
    [][(tcp.connected_ /\ ~tcp'.connected_) =>
          /\ tcp'.stats_.bytes_dropped_incomplete =
                 tcp.stats_.bytes_dropped_incomplete
                     + tcp.incomplete_buffer_size_
          /\ tcp'.incomplete_buffer_size_ = 0]_vars

\* the ingress keeps the stream: what TCPServer::run has delivered on this
\* connection, followed by the tail it holds, is the bytes received on the
\* connection, and likewise for the file read so far and the leftover
IngressKeepsStream ==
    /\ tcp.connected_ =>
          tcp.delivered \o SubSeq(tcp.incomplete_buffer_, 1,
                                  tcp.incomplete_buffer_size_)
              = Bytes(0, tcp.conn_bytes)
    /\ file.pc = "read" =>
          file.delivered \o file.leftover
              = Bytes(0, consumer.total_bytes_received)

\* every delivery is a whole number of 8-byte words and a held tail is at
\* most 7 bytes
WholeWordsDelivered ==
    /\ Len(tcp.delivered) % 8 = 0
    /\ Len(file.delivered) % 8 = 0
    /\ tcp.incomplete_buffer_size_ <= 7
    /\ Len(file.leftover) <= 7

\* on the first connection every delivery of run() was handed to push, and in
\* file mode every delivery was parsed
DeliveriesHandedOn ==
    /\ (tcp.connected_ /\ tcp.stats_.successful_connections = 1) =>
          8 * Len(Flat(data_queue.pushed)) = Len(tcp.delivered)
    /\ file.pc # "unused" => 8 * Len(parser.handed) = Len(file.delivered)

FinalSummaryReached == tcp.pc = "returned" /\ consumer.pc = "exited"

C35_EveryBufferParsedOrCounted ==
    [][\/ /\ PushStep
          /\ data_queue'.queue_ # <<>>
          /\ data_queue'.queue_[Len(data_queue'.queue_)] =
                 data_queue'.pushed[Len(data_queue'.pushed)]
          /\ Len(data_queue'.queue_) + data_queue'.dropped_buffers_ =
                 Len(data_queue.queue_) + data_queue.dropped_buffers_ + 1
       \/ /\ ~PushStep
          /\ data_queue'.queue_ = data_queue.queue_
          /\ data_queue'.dropped_buffers_ = data_queue.dropped_buffers_
       \/ /\ ~PushStep
          /\ data_queue.queue_ # <<>>
          /\ data_queue'.queue_ = Tail(data_queue.queue_)
          /\ data_queue'.dropped_buffers_ = data_queue.dropped_buffers_
          /\ parser'.handed = parser.handed \o Head(data_queue.queue_)]_vars

\* C39 (as claimed): for every max_buffers, 0 included, the queue never
\* holds more than max_buffers buffers and push never calls queue_.pop()
\* on an empty queue.
C39_QueueWithinMaxBuffers ==
    /\ Len(data_queue.queue_) <= data_queue.max_buffers_
    /\ data_queue.empty_pops = 0

(***************************************************************************)
(* Properties of the chunk metadata                                        *)
(***************************************************************************)

\* worker w completes processDecoded in this step
DecodeStep(w) == worker_pc[w] = "decode" /\ worker_pc'[w] = "complete"

\* min_time + ((toa & (2^30 - 1)) - min_time) mod 2^30, in the width of the
\* model's unsigned words
ExtendedToa(toa, min_time) ==
    Add64(min_time, Sub64(toa % (2 ^ 30), min_time) % (2 ^ 30))

\* the ToA of a pixel word decoded under chunk metadata meta
ToaUnder(word, chip_index, meta) ==
    IF meta.has_extra_packets
    THEN ExtendedToa(decode_pixel_data(word, chip_index).value.toa_ns,
                     meta.min_timestamp_ns)
    ELSE decode_pixel_data(word, chip_index).value.toa_ns

\* the chunk metadata the parser held when the task now decoded by worker w
\* was submitted (the tasks of a chip are decoded in submission order)
MetadataAtSubmission(w) ==
    LET chip == worker_task[w].chip_index
        n == IF chip \in DOMAIN history.done
             THEN Len(history.done[chip]) ELSE 0
    IN history.sent[chip][n + 1].chunk_meta

\* the chunk in which the task now decoded by worker w was submitted
ChunkAtSubmission(w) ==
    LET chip == worker_task[w].chip_index
        n == IF chip \in DOMAIN history.done
             THEN Len(history.done[chip]) ELSE 0
    IN history.sent[chip][n + 1].chunk

\* the hit worker w has just recorded
DecodedHit(w) ==
    worker_stats'[w].recent_hits[Len(worker_stats'[w].recent_hits)]

\* C16: a pixel word handed to the dispatcher is decoded with the chunk
\* metadata that was current when it was submitted, whatever the parser has
\* done to its metadata since and whenever the worker runs.
C16_DecodedWithSubmissionMetadata ==
    [][\A w \in Workers :
         (DecodeStep(w)
            /\ PacketType(worker_task[w].word) \in
                   {PIXEL_COUNT_FB, PIXEL_STANDARD}) =>
         DecodedHit(w).toa_ns =
             ToaUnder(worker_task[w].word, worker_task[w].chip_index,
                      MetadataAtSubmission(w))]_vars

\* C16 witness: a word submitted before the extras of its chunk were
\* published has been decoded after their publication.
C16_Witness ==
    \E chip \in DOMAIN history.done :
        \E k \in 1..Len(history.done[chip]) :
            /\ ~history.sent[chip][k].chunk_meta.has_extra_packets
            /\ history.done[chip][k].chunk_meta.has_extra_packets

\* the position of the last chunk header in a log (0 when there is none)
LastHeader(log) ==
    LET at == {i \in 1..Len(log) : IsChunkHeader(log[i])}
    IN IF at = {} THEN 0 ELSE CHOOSE i \in at : \A j \in at : j <= i

\* the last word of the log is one of the final three of the
\* chunk_size_bytes/8 - 1 data words of its chunk
AmongFinalThreeDataWords(log) ==
    /\ LastHeader(log) > 0
    /\ LET k == Len(log) - LastHeader(log)
           n == get_bits(log[LastHeader(log)], 63, 48) \div 8 - 1
       IN k >= 1 /\ k <= n /\ k >= n - 2

\* C17 (as claimed): an extra-timestamp word joins the chunk's list of extra
\* timestamps only when it is one of the final three data words of its
\* chunk, and the list never holds more than three entries.
C17_ExtrasAreFinalThreeWords ==
    [][/\ Len(state'.extra_timestamps) <= 3
       /\ (IsParseStep
             /\ Len(state'.extra_timestamps) > Len(state.extra_timestamps))
          => AmongFinalThreeDataWords(parser.handed')]_vars

IsPixelWord(word) == PacketType(word) \in {PIXEL_COUNT_FB, PIXEL_STANDARD}

\* the pixel words process_packet handles in an inline step: those of the
\* batch, in order, with the word of the step last
InlinePixelWords ==
    SelectSeq(state.batch_buffer
                  \o (IF IsParseStep THEN <<ParsedWord>> ELSE <<>>),
              IsPixelWord)

\* the i-th hit the aggregator records in this step
InlineHit(i) ==
    processor'.recent_hits_buffer_[
        (processor.recent_hits_head_ + i - 1) % processor.recent_hit_capacity_]

\* inline path: the hits recorded in a step that begins with the extras
\* published carry the extended ToA
InlineHitsExtended ==
    (~config.use_dispatcher /\ state.chunk_meta.has_extra_packets) =>
        \A i \in 1..(processor'.total_hits - processor.total_hits) :
            InlineHit(i).toa_ns =
                ExtendedToa(
                    decode_pixel_data(InlinePixelWords[i],
                                      state.chip_index).value.toa_ns,
                    state.chunk_meta.min_timestamp_ns)

\* C18 (as claimed): once the extras of a chunk are published, every pixel
\* word of that chunk decoded afterwards has ToA
\* extend_timestamp(toa & (2^30 - 1), min_time, 30), inline and on a worker.
C18_PixelsDecodedAfterExtrasExtended ==
    [][/\ InlineHitsExtended
       /\ \A w \in Workers :
            (DecodeStep(w) /\ IsPixelWord(worker_task[w].word)
               /\ state.chunk_meta.has_extra_packets
               /\ ChunkAtSubmission(w) = state.current_chunk_id) =>
            DecodedHit(w).toa_ns =
                ExtendedToa(
                    decode_pixel_data(worker_task[w].word,
                        worker_task[w].chip_index).value.toa_ns,
                    state.chunk_meta.min_timestamp_ns)]_vars

\* C18 (amended): once the extras of a chunk are published, every pixel word
\* of that chunk the parser processes or submits afterwards has the extended
\* ToA, inline and on a worker; a pixel word submitted before the publication
\* keeps its own ToA whenever a worker decodes it.
C18_PixelsParsedAfterExtrasExtended ==
    [][/\ InlineHitsExtended
       /\ \A w \in Workers :
            (DecodeStep(w) /\ IsPixelWord(worker_task[w].word)) =>
            DecodedHit(w).toa_ns =
                IF MetadataAtSubmission(w).has_extra_packets
                THEN ExtendedToa(
                         decode_pixel_data(worker_task[w].word,
                             worker_task[w].chip_index).value.toa_ns,
                         MetadataAtSubmission(w).min_timestamp_ns)
                ELSE decode_pixel_data(worker_task[w].word,
                         worker_task[w].chip_index).value.toa_ns]_vars

\* C18 witness: a worker has decoded a pixel word that was submitted after the
\* extras of its chunk were published, in a chunk whose second extra
\* timestamp differs from the first.
C18_Witness ==
    \E chip \in DOMAIN history.done :
        \E k \in 1..Len(history.done[chip]) :
            /\ history.sent[chip][k].chunk_meta.has_extra_packets
            /\ history.sent[chip][k].chunk_meta.min_timestamp_ns #
                   history.sent[chip][k].chunk_meta.packet_gen_time_ns
(***************************************************************************)
(* Claims on the aggregator and its lock (SSpec)                           *)
(***************************************************************************)

\* C25: every copy returned by getStatistics is an aggregator state left
\* behind by whole calls: it never shows addPacketBytes between its two
\* statements nor mergeInto between its first statement and its last, and
\* the copy is taken while no other thread is inside a call.
C25_SnapshotIsWholeState ==
    /\ access.snapshot \in access.committed
    /\ access.reader = "copy" =>
         /\ access.owner = "reader"
         /\ processor \in access.committed
         /\ main.pc # "merging"
         /\ \A w \in Workers : worker_pc[w] # "in_call"

\* a copy has been returned that holds a whole addPacketBytes of a worker,
\* taken after the worker had begun a later call, and mergeInto is now
\* between its first statement and its last
C25_Witness ==
    /\ access.taken >= 1
    /\ access.snapshot.total_bytes_accounted > 0
    /\ access.snapshot.total_hits = 0
    /\ access.owner = "main"
    /\ processor.total_hits > 0
    /\ processor \notin access.committed
(***************************************************************************)
(* Claims on the recent-hit ring (HSpec)                                   *)
(***************************************************************************)

\* the last n elements of a sequence
LastOf(s, n) == SubSeq(s, Len(s) - n + 1, Len(s))

\* every worker's partial statistics have been merged and no flush is in
\* progress
AllMerged ==
    /\ main.pc = "run"
    /\ \A w \in Workers : worker_stats[w] = ResetPartialStats

\* C26: once every decoded hit has reached the aggregator, getRecentHits
\* returns the last min(N, number of decoded hits) hits in the order of
\* their decoding, for capacity N > 0, and nothing for capacity 0.
C26_RingHoldsLastHits ==
    AllMerged =>
        getRecentHits(processor) =
            LastOf(history.hits,
                   Min(processor.recent_hit_capacity_, Len(history.hits)))
(***************************************************************************)
(* Claims on words that fail to decode (ESpec)                             *)
(***************************************************************************)

\* a pixel or TDC word whose decoder throws
FailsToDecode(word) ==
    \/ /\ PacketType(word) \in {PIXEL_COUNT_FB, PIXEL_STANDARD}
       /\ ~decode_pixel_data(word, 0).ok
    \/ PacketType(word) = TDC_DATA /\ ~decode_tdc_data(word).ok

\* a TDC word that decodes
TdcDecodes(word) == PacketType(word) = TDC_DATA /\ decode_tdc_data(word).ok

\* a pixel word that decodes
PixelDecodes(word) ==
    /\ PacketType(word) \in {PIXEL_COUNT_FB, PIXEL_STANDARD}
    /\ decode_pixel_data(word, 0).ok

\* the number of words of a sequence that satisfy Test
CountWords(words, Test(_)) ==
    Cardinality({i \in 1..Len(words) : Test(words[i])})

\* the parser step takes a data word of the current chunk
TakesChunkWord ==
    /\ IsParseStep
    /\ ~IsChunkHeader(ParsedWord)
    /\ state.in_chunk
    /\ state.chunk_words_remaining > 0

\* the words the step had at hand: the batch buffer and the word it takes
WordsAtHand ==
    state.batch_buffer \o (IF TakesChunkWord THEN <<ParsedWord>> ELSE <<>>)

\* the words of those that the step has handed to process_packet
Processed(Test(_)) ==
    CountWords(WordsAtHand, Test) - CountWords(state'.batch_buffer, Test)

\* worker w finishes processDecoded on its task
DecodesTask(w) ==
    worker_pc[w] = "decode" /\ worker_pc'[w] = "complete"

\* C27: a pixel or TDC word that fails to decode adds exactly one to the
\* decode-error counter and adds no hit and no TDC event, inline (where the
\* words of a batch reach process_packet together) and in a worker; the
\* parser step that took the word leaves chunk_words_remaining one lower
\* and the stream state as a TDC word that decodes would have left it, the
\* buffered word apart.
C27_FailedDecodeCountsOneError ==
    /\ [][(TakesChunkWord /\ FailsToDecode(ParsedWord)) =>
            /\ state.in_chunk
            /\ [state' EXCEPT !.batch_buffer = <<>>] =
                   [ParseWord(CurrentContext, config, Tdc1Word).st
                        EXCEPT !.batch_buffer = <<>>]
            /\ Len(state'.batch_buffer) =
                   Len(ParseWord(CurrentContext, config, Tdc1Word)
                           .st.batch_buffer)]_vars
    /\ [][TakesChunkWord =>
            state'.chunk_words_remaining =
                state.chunk_words_remaining - 1]_vars
    /\ [][~config.use_dispatcher =>
            /\ processor'.total_decode_errors =
                   processor.total_decode_errors + Processed(FailsToDecode)
            /\ processor'.total_tdc_events =
                   processor.total_tdc_events + Processed(TdcDecodes)
            /\ processor'.total_hits =
                   processor.total_hits + Processed(PixelDecodes)]_vars
    /\ [][\A w \in Workers :
            (DecodesTask(w) /\ FailsToDecode(worker_task[w].word)) =>
              /\ processor'.total_decode_errors =
                     processor.total_decode_errors + 1
              /\ processor'.total_hits = processor.total_hits
              /\ processor'.total_tdc_events = processor.total_tdc_events
              /\ worker_stats' = worker_stats
              /\ state' = state]_vars

\* with the dispatcher, a chunk of a failing TDC word and a TDC word that
\* decodes has been parsed and decoded: one decode error, one TDC event in
\* a worker's partial statistics, the chunk at its end
C27_Witness ==
    /\ config.use_dispatcher
    /\ Len(parser.handed) = 3
    /\ parser.handed[2] = TdcBadWord
    /\ parser.handed[3] = Tdc1Word
    /\ processor.total_decode_errors = 1
    /\ processor.total_tdc_events = 0
    /\ \E w \in Workers : worker_stats[w].tdc1 = 1
    /\ ~state.in_chunk
(***************************************************************************)
(* Claims on packet classification (KSpec)                                 *)
(***************************************************************************)

IsSpidrPacketId(word) == FullType(word) = SPIDR_PACKET_ID
IsTpx3Control(word) == FullType(word) = TPX3_CONTROL

\* words that reach the switch on the 4-bit type, with type 5 and type 7
NibbleFive(word) ==
    PacketType(word) = SPIDR_CONTROL /\ ~IsSpidrPacketId(word)
NibbleSeven(word) == PacketType(word) = 7 /\ ~IsTpx3Control(word)

\* packet_type_counts[packet_type], 0 when absent
TypeCount(p, packet_type) ==
    IF packet_type \in DOMAIN p.packet_type_counts
    THEN p.packet_type_counts[packet_type] ELSE 0

\* C28: a word with top byte 0x50 is accounted as a SPIDR packet id and a
\* word with top byte 0x71 as TPX3 control, whatever their other bits;
\* neither enters the switch on the 4-bit type: no count under type 5 or 7,
\* no SPIDR control bytes, no chunk count, no unknown packet.  Inline the
\* words of a batch reach process_packet together; in a worker the task
\* changes the aggregator by its one addPacketBytes and nothing else.
C28_FullByteBeforeNibble ==
    /\ [][~config.use_dispatcher =>
            /\ BytesIn(processor', "SPIDR packet ID (0x50)") =
                   BytesOf("SPIDR packet ID (0x50)")
                       + 8 * Processed(IsSpidrPacketId)
            /\ BytesIn(processor', "TPX3 control (0x71)") =
                   BytesOf("TPX3 control (0x71)")
                       + 8 * Processed(IsTpx3Control)
            /\ BytesIn(processor', "SPIDR control (0x05)") =
                   BytesOf("SPIDR control (0x05)") + 8 * Processed(NibbleFive)
            /\ TypeCount(processor', SPIDR_CONTROL) =
                   TypeCount(processor, SPIDR_CONTROL) + Processed(NibbleFive)
            /\ TypeCount(processor', 7) =
                   TypeCount(processor, 7) + Processed(NibbleSeven)
            /\ processor'.total_unknown_packets =
                   processor.total_unknown_packets + Processed(NibbleSeven)
            /\ processor'.total_chunks - processor.total_chunks \in
                   {Processed(NibbleFive),
                    Processed(NibbleFive) + state.pending_chunk_updates}]_vars
    /\ [][\A w \in Workers :
            DecodesTask(w) =>
              /\ IsSpidrPacketId(worker_task[w].word) =>
                   processor' = addPacketBytes(processor,
                                    "SPIDR packet ID (0x50)", 8)
              /\ IsTpx3Control(worker_task[w].word) =>
                   processor' = addPacketBytes(processor,
                                    "TPX3 control (0x71)", 8)
              /\ (IsSpidrPacketId(worker_task[w].word)
                    \/ IsTpx3Control(worker_task[w].word)) =>
                   worker_stats' = worker_stats]_vars

\* a worker has processed a chunk holding 0x50FF7FFF7FFF7FFF and 0x71FF7FFF7FFF7FFF: 8
\* bytes under each full-byte label, nothing under the 4-bit types
C28_Witness ==
    /\ config.use_dispatcher
    /\ parser.handed =
           <<HeaderWord, <<20735, 32767, 32767, 32767>>,
             <<29183, 32767, 32767, 32767>>>>
    /\ BytesOf("SPIDR packet ID (0x50)") = 8
    /\ BytesOf("TPX3 control (0x71)") = 8
    /\ TypeCount(processor, SPIDR_CONTROL) = 0
    /\ TypeCount(processor, 7) = 0
    /\ processor.total_unknown_packets = 0

\* the number of chunk-header words in a log of words
HeadersIn(log) == Len(SelectSeq(log, IsChunkHeader))

\* C38 (as claimed): after a parse call has returned, with the decode
\* workers idle, total_chunks is the number of chunk-header words parsed so
\* far.
C38_ChunksCountHeaders ==
    ParserAtRest => processor.total_chunks = HeadersIn(parser.handed)
(***************************************************************************)
(* Claims on decode_tdc_data, extend_timestamp and pixaddr_to_xy (FSpec)   *)
(***************************************************************************)

\* a | b for b in {0, 1}
OrLowBit(a, b) == a - (a % 2) + Max(a % 2, b)

\* C29: decode_tdc_data accepts the fine values 0..12, taking 0 as 1, and
\* throws for 13, 14 and 15; for an accepted word the fine time is the
\* (adjusted) fine value and the timestamp is
\* (coarse << 1) | ((fine - 1) / 6).
C29_TdcFineField ==
    (fcall.function = "decode_tdc_data" /\ fcall.returned) =>
        LET fine == IF fcall.fract = 0 THEN 1 ELSE fcall.fract
        IN /\ fcall.result.ok <=> fcall.fract <= 12
           /\ fcall.result.ok =>
                /\ fcall.result.value.fine_timestamp = fine
                /\ fcall.result.value.timestamp_ns =
                       OrLowBit(2 * fcall.coarse, (fine - 1) \div 6)

\* a word with fine field 0 and coarse time 2^23 + 5 has been accepted
\* with fine time 1
C29_Witness ==
    /\ fcall.function = "decode_tdc_data"
    /\ fcall.returned
    /\ fcall.fract = 0
    /\ fcall.coarse = 2 ^ 23 + 5
    /\ fcall.result.ok
    /\ fcall.result.value.fine_timestamp = 1
    /\ fcall.result.value.timestamp_ns = 2 ^ 24 + 10

\* C30: extend_timestamp(x & mask, min, n_bits) is
\* min + ((x - min) & mask) in wrapping unsigned arithmetic, and
\* extend_timestamp(0x10, 0x3FFFFF00, 30) is 0x40000010.
C30_ExtendTimestamp ==
    (fcall.function = "extend_timestamp" /\ fcall.returned) =>
        /\ fcall.result =
               Add64(fcall.minimum_timestamp,
                     Sub64(fcall.x, fcall.minimum_timestamp)
                         % (2 ^ fcall.n_bits))
        /\ (fcall.timestamp = 16 /\ fcall.minimum_timestamp = 1073741568
              /\ fcall.n_bits = 30) => fcall.result = 1073741840

\* extend_timestamp(0x10, 0x3FFFFF00, 30) has returned 0x40000010: the
\* timestamp lies below the minimum and is carried into the next period
C30_Witness ==
    /\ fcall.function = "extend_timestamp"
    /\ fcall.returned
    /\ fcall.timestamp = 16
    /\ fcall.minimum_timestamp = 1073741568
    /\ fcall.n_bits = 30
    /\ fcall.result = 1073741840

\* the pixel address of the pixel at (x, y): double column x / 2, super
\* pixel y / 4, pixel index 4 * (x mod 2) + (y mod 4)
xy_to_pixaddr(x, y) ==
    (x \div 2) * 512 + (y \div 4) * 8 + (x % 2) * 4 + (y % 4)

\* C31: for every 16-bit pixel address pixaddr_to_xy gives x and y in
\* 0..255, and the address is reconstructed from (x, y), so that distinct
\* addresses give distinct pairs.
C31_PixaddrInvertible ==
    (fcall.function = "pixaddr_to_xy" /\ fcall.returned) =>
        /\ fcall.result.x \in 0..255
        /\ fcall.result.y \in 0..255
        /\ xy_to_pixaddr(fcall.result.x, fcall.result.y) = fcall.pixaddr

\* pixaddr_to_xy(0xFFFF) has returned (255, 255): the last double column,
\* the last super pixel and a pixel of the right column
C31_Witness ==
    /\ fcall.function = "pixaddr_to_xy"
    /\ fcall.returned
    /\ fcall.pixaddr = 65535
    /\ fcall.result = [x |-> 255, y |-> 255]
(***************************************************************************)
(* Claims on the TDC totals of the two decoding paths (ISpec)              *)
(***************************************************************************)

\* the aggregator after process_raw_data has parsed the words
\* single-threaded, from a fresh stream state, with accounting as given
InlineResult(words, enable_accounting) ==
    process_raw_data(
        ParseContext(NewHitProcessor(recent_hit_count), NewStreamState, 0,
                     NewReorderBuffer(reorder_window_size), <<>>, <<>>,
                     [w \in Workers |-> <<>>], 0,
                     [w \in Workers |-> "absent"]),
        Config(FALSE, FALSE, enable_accounting, FALSE), words).p

\* the TDC totals of an aggregator
TdcTotals(p) ==
    [total_tdc_events |-> p.total_tdc_events,
     total_tdc1_events |-> p.total_tdc1_events,
     total_tdc2_events |-> p.total_tdc2_events]

\* every worker's partial statistics have been merged
AllPartialsMerged ==
    /\ \A w \in Workers : worker_stats[w] = ResetPartialStats
    /\ main.local = ResetPartialStats

\* C36 (as claimed): once the stream has been parsed, the workers are idle
\* and their partial statistics merged, total_tdc_events, total_tdc1_events
\* and total_tdc2_events are those of decoding the same words inline.
C36_TdcTotalsMatchInline ==
    (ParserAtRest /\ AllPartialsMerged) =>
        TdcTotals(processor) =
            TdcTotals(InlineResult(parser.handed, config.enable_accounting))
\* the indexes of buffer_ a thread's memcpy still has to touch
WriterSlots ==
    IF ring.writer.pc = "copy"
    THEN {CopyIndex(ring.size_, ring.writer.current_tail,
                    ring.writer.write_size, k) :
              k \in ring.writer.copied..(ring.writer.write_size - 1)}
    ELSE {}

ReaderSlots ==
    IF ring.reader.pc = "copy"
    THEN {CopyIndex(ring.size_, ring.reader.current_head,
                    ring.reader.read_size, k) :
              k \in Len(ring.reader.data)..(ring.reader.read_size - 1)}
    ELSE {}

\* C40: with one writer and one reader thread, the bytes returned by read
\* are, in order and each once, the first of the bytes accepted by write;
\* every byte written and not yet read is still in buffer_ at its place; the
\* two copies never touch the same byte of buffer_ at the same time; and
\* tail_ - head_, the number of bytes stored, is at most size_ - 1.
C40_ReadReturnsWhatWriteAccepted ==
    /\ IsPrefix(ring.returned, ring.accepted)
    /\ ring.accepted = [k \in 1..Len(ring.accepted) |-> k]
    /\ ring.head_ = Len(ring.returned)
    /\ ring.tail_ = Len(ring.accepted)
    /\ \A k \in (ring.head_ + 1)..ring.tail_ :
         ring.buffer_[Masked(k - 1, ring.size_)] = k
    /\ WriterSlots \cap ReaderSlots = {}
    /\ ring.head_ <= ring.tail_
    /\ ring.tail_ - ring.head_ <= ring.size_ - 1

\* a write that wraps around the end of buffer_ has copied its bytes while
\* a read is copying, and everything accepted before has been read or is
\* being read
C40_Witness ==
    /\ ring.size_ = 4
    /\ ring.writer.pc = "store"
    /\ ring.writer.write_size
           > ring.size_ - Masked(ring.writer.current_tail, ring.size_)
    /\ ring.reader.pc = "copy"
    /\ ring.returned # <<>>
====
